---------------------------- MODULE Spec2Model ----------------------------
(***************************************************************************)
(* Model of the resume-scoring service's deterministic core:               *)
(*   - ResumeParser.calculate_total_work_experience / parse_date           *)
(*     (src/app/services/resume_extraction.py)                             *)
(*   - JobDescriptionEnhancer.map_unique_skills / map_skills_to_conditional*)
(*     (src/app/services/job_description_enhance.py)                       *)
(*   - JobDescriptionEnhancer.map_experience_to_bucket                     *)
(*   - JobDescriptionEnhancer.enhance_job_description with the writes and  *)
(*     reads of Neo4jService (src/app/services/neo4j_service.py), and      *)
(*     ResumeScoringService.process_bulk_resumes behind the two endpoints  *)
(*     of src/app/main.py                                                  *)
(*   - ResumeParser.parse_resume and ResumeScoringService.parse_resume     *)
(*     with the aggregator of src/app/services/resume_scoring.py           *)
(*                                                                         *)
(* A date string is a sequence of one-character strings, so that           *)
(* datetime.strptime(.., '%Y-%m-%d') is modelled by what it matches.       *)
(* A datetime is a record [year, month, day, tick]; tick is the time of    *)
(* day: 0 for a value strptime built (midnight), > 0 for datetime.now().   *)
(***************************************************************************)
EXTENDS Integers, Sequences, FiniteSets, Bags, TLC

VARIABLES
    experiences,      \* argument of calculate_total_work_experience (a list or None)
    now,              \* the evaluation date read by datetime.now()
    agg_pc,           \* "idle" | "ready" | "returned" | "raised"
    work_experience,  \* the returned {'years', 'months'}, or the exception raised
    primary_skills,   \* argument of map_unique_skills (a list or None)
    secondary_skills, \* argument of map_unique_skills (a list or None)
    skills_pc,        \* "idle" | "ready" | "unique_returned" | "mapping_returned" | "raised"
    unique,           \* result of map_unique_skills (NoValue before the return)
    mapping,          \* result of map_skills_to_conditional (NoValue before)
    years,            \* argument of map_experience_to_bucket (a number or None)
    bucket_pc,        \* "idle" | "ready" | "returned" | "raised"
    bucket_label,     \* the label returned, or the exception raised
    api_pc,           \* "idle" | "up": whether the API is being served
    graph,            \* the Neo4j database: [nodes, edges, score]
    temp_storage,     \* JobDescriptionEnhancer.temp_storage
    response,         \* the response of the last API call
    projected,        \* history: the facts written by the calls made so far
    enhance_returned, \* history: an enhance_job_description call has returned
    uploads,          \* the job descriptions clients send, each with GPT's candidates
    db_faults,        \* whether a Neo4j write may raise while a projection runs
    batch,            \* the process_bulk_resumes call suspended at an await
    silent_noops,     \* history: the writes whose MATCH found no node
    structured_data,  \* what GPT extracted from the resume (ResumeSchema)
    resume_pc,        \* "idle" | "ready": whether a resume is being parsed
    parser_result,    \* ResumeParser.parse_resume: <<>> before the call, <<r>> after
    scoring_result    \* ResumeScoringService.parse_resume: <<>> before, <<r>> after

vars == <<experiences, now, agg_pc, work_experience,
          primary_skills, secondary_skills, skills_pc, unique, mapping,
          years, bucket_pc, bucket_label,
          api_pc, graph, temp_storage, response, projected, enhance_returned,
          uploads, db_faults, batch, silent_noops,
          structured_data, resume_pc, parser_result, scoring_result>>

aggVars == <<experiences, now, agg_pc, work_experience>>

skillVars == <<primary_skills, secondary_skills, skills_pc, unique, mapping>>

bucketVars == <<years, bucket_pc, bucket_label>>

apiVars == <<api_pc, graph, temp_storage, response, projected, enhance_returned,
            uploads, db_faults, batch, silent_noops>>

resumeVars == <<structured_data, resume_pc, parser_result, scoring_result>>

\* Python's None where a str is expected (told apart from every str: no
\* character of a str is "None")
None == <<"None">>

\* no value yet (the call has not returned)
NoValue == "NoValue"

(***************************************************************************)
(* Bounds of the model                                                     *)
(***************************************************************************)
\* longest experiences list drawn whose dates are all str
MaxExp == 3

\* longest experiences list drawn in which a date may be None
MaxExpOptional == 2

\* longest primary / secondary skill list drawn
MaxSkills == 3

\* largest whole number of years drawn
MaxYears == 40

\* longest candidate_list drawn
MaxCandidates == 2

\* most resume files sent in one scoring call
MaxFiles == 2

(***************************************************************************)
(* datetime.strptime(date_string, '%Y-%m-%d')                              *)
(***************************************************************************)
\* the value of each decimal digit
DigitValues ==
    [c \in {"0", "1", "2", "3", "4", "5", "6", "7", "8", "9"} |->
        CASE c = "0" -> 0 [] c = "1" -> 1 [] c = "2" -> 2 [] c = "3" -> 3
          [] c = "4" -> 4 [] c = "5" -> 5 [] c = "6" -> 6 [] c = "7" -> 7
          [] c = "8" -> 8 [] c = "9" -> 9]

IsDigit(c) == c \in DOMAIN DigitValues

NonZeroDigit(c) == IsDigit(c) /\ c # "0"

\* a blank stands where a leading zero may
DigitVal(c) == IF IsDigit(c) THEN DigitValues[c] ELSE 0

\* The directive regexes of _strptime, matched on the n characters of s from
\* position i on. %m is 1[0-2]|0[1-9]|[1-9]
MatchesMonthDirective(s, i, n) ==
    \/ n = 2 /\ s[i] = "1" /\ s[i + 1] \in {"0", "1", "2"}
    \/ n = 2 /\ s[i] = "0" /\ NonZeroDigit(s[i + 1])
    \/ n = 1 /\ NonZeroDigit(s[i])

\* %d is 3[01]|[12]\d|0[1-9]|[1-9]| [1-9]
MatchesDayDirective(s, i, n) ==
    \/ n = 2 /\ s[i] = "3" /\ s[i + 1] \in {"0", "1"}
    \/ n = 2 /\ s[i] \in {"1", "2"} /\ IsDigit(s[i + 1])
    \/ n = 2 /\ s[i] \in {"0", " "} /\ NonZeroDigit(s[i + 1])
    \/ n = 1 /\ NonZeroDigit(s[i])

\* the number the n (1 or 2) characters of s from position i on stand for
FieldVal(s, i, n) ==
    IF n = 1 THEN DigitVal(s[i]) ELSE DigitVal(s[i]) * 10 + DigitVal(s[i + 1])

\* %Y: the number the first four characters stand for
YearVal(s) == FieldVal(s, 1, 2) * 100 + FieldVal(s, 3, 2)

IsLeap(y) == y % 4 = 0 /\ (y % 100 # 0 \/ y % 400 = 0)

DaysInMonth(y, m) ==
    IF m = 2 THEN (IF IsLeap(y) THEN 29 ELSE 28)
    ELSE IF m \in {4, 6, 9, 11} THEN 30 ELSE 31

\* The month field's length ml for which the whole string matches
\* (\d\d\d\d)-(%m)-(%d) with nothing left over; {} when there is none.
FormatMatches(s) ==
    { ml \in {1, 2} :
        /\ Len(s) \in {7 + ml, 8 + ml}
        /\ IsDigit(s[1]) /\ IsDigit(s[2]) /\ IsDigit(s[3]) /\ IsDigit(s[4])
        /\ s[5] = "-"
        /\ MatchesMonthDirective(s, 6, ml)
        /\ s[6 + ml] = "-"
        /\ MatchesDayDirective(s, 7 + ml, Len(s) - 6 - ml) }

\* [exc, value]: exc is "none" (value is the datetime), "ValueError" (a str
\* that does not match, or names no calendar day) or "TypeError" (not a str).
strptime(s) ==
    LET Build(y, m, d) ==
            IF y < 1 \/ d > DaysInMonth(y, m)
            THEN [exc |-> "ValueError", value |-> NoValue]
            ELSE [exc |-> "none",
                  value |-> [year |-> y, month |-> m, day |-> d, tick |-> 0]]
        Convert(found) ==
            IF found = {} THEN [exc |-> "ValueError", value |-> NoValue]
            ELSE IF 2 \in found
                 THEN Build(YearVal(s), FieldVal(s, 6, 2), FieldVal(s, 9, Len(s) - 8))
                 ELSE Build(YearVal(s), FieldVal(s, 6, 1), FieldVal(s, 8, Len(s) - 7))
    IN IF s = None THEN [exc |-> "TypeError", value |-> NoValue]
       ELSE Convert(FormatMatches(s))

(***************************************************************************)
(* ResumeParser.parse_date                                                 *)
(***************************************************************************)
\* datetime.now() at the (k+1)-th reading of the clock within one call: the
\* evaluation date, at a time of day that advances from reading to reading.
datetime_now(today, k) ==
    [year |-> today.year, month |-> today.month, day |-> today.day, tick |-> k + 1]

\* parse_date without its except clause: every exception leaves the call
parse_date_uncaught(date_string, today, k) ==
    LET Return(r) == [exc |-> r.exc, value |-> r.value, clock |-> k]
    IN Return(strptime(date_string))

\* [exc, value, clock]: only ValueError is caught; clock counts the readings.
parse_date(date_string, today, k) ==
    LET Return(r) ==
            IF r.exc = "none" THEN [exc |-> "none", value |-> r.value, clock |-> k]
            ELSE IF r.exc = "ValueError"
                 THEN [exc |-> "none", value |-> datetime_now(today, k),
                       clock |-> k + 1]
                 ELSE [exc |-> r.exc, value |-> NoValue, clock |-> k]
    IN Return(strptime(date_string))


(***************************************************************************)
(* ResumeParser.calculate_total_work_experience                            *)
(***************************************************************************)
\* A Python list argument that may be None: [none, items]
PyList(items) == [none |-> FALSE, items |-> items]

NoneList == [none |-> TRUE, items |-> <<>>]

\* Python truthiness of a list-or-None: `not x`
Falsy(x) == x.none \/ x.items = <<>>

\* datetime comparison: by date, then by time of day
DateLT(a, b) ==
    \/ a.year < b.year
    \/ a.year = b.year /\ a.month < b.month
    \/ a.year = b.year /\ a.month = b.month /\ a.day < b.day
    \/ a.year = b.year /\ a.month = b.month /\ a.day = b.day /\ a.tick < b.tick

DateLE(a, b) == ~DateLT(b, a)

\* max(a, b) of Python: the first argument unless the second is greater
DateMax(a, b) == IF DateLT(a, b) THEN b ELSE a

\* the list comprehension of lines 133-135: start is parsed before end, entry
\* by entry; an exception parse_date does not catch ends the call
RECURSIVE ParseExperiences(_, _, _, _)
ParseExperiences(exps, today, k, acc) ==
    LET WithEnd(s, e) ==
            IF e.exc # "none" THEN [exc |-> e.exc, value |-> NoValue]
            ELSE ParseExperiences(Tail(exps), today, e.clock,
                     Append(acc, [start |-> s.value, end |-> e.value]))
        WithStart(s) ==
            IF s.exc # "none" THEN [exc |-> s.exc, value |-> NoValue]
            ELSE WithEnd(s, parse_date(Head(exps).date_end, today, s.clock))
    IN IF exps = <<>> THEN [exc |-> "none", value |-> acc]
       ELSE WithStart(parse_date(Head(exps).date_start, today, k))

\* the list left as it came: the sort of line 136 forgotten
InsertByStart_NoSort(sorted, x) == Append(sorted, x)

\* list.sort(key=start) is stable: x goes behind every entry whose start is
\* not greater than its own
InsertByStart(sorted, x) ==
    LET n == Cardinality({i \in 1..Len(sorted) : DateLE(sorted[i].start, x.start)})
    IN SubSeq(sorted, 1, n) \o <<x>> \o SubSeq(sorted, n + 1, Len(sorted))

RECURSIVE SortByStart(_)
SortByStart(xs) ==
    IF xs = <<>> THEN <<>>
    ELSE InsertByStart(SortByStart(SubSeq(xs, 1, Len(xs) - 1)), xs[Len(xs)])

\* the difference taken the wrong way round
MonthsBetween_Swapped(start, end) ==
    (start.year - end.year) * 12 + start.month - end.month

\* a day-exact difference: a month not yet completed is not counted
MonthsBetween_DayExact(start, end) ==
    (end.year - start.year) * 12 + end.month - start.month
        - (IF end.day < start.day THEN 1 ELSE 0)

\* (end.year - start.year) * 12 + end.month - start.month
MonthsBetween(start, end) ==
    (end.year - start.year) * 12 + end.month - start.month

\* a test that starts a new run when the interval starts at the run's end
JoinsRun_Strict(start, current_end) == DateLT(start, current_end)

\* a walk that merges nothing: every interval starts a run of its own
JoinsRun_Never(start, current_end) == FALSE

\* the test of line 146: the interval joins the current run
JoinsRun(start, current_end) == DateLE(start, current_end)

\* the run's end set to the joining interval's end, without max
ExtendRun_Last(current_end, end) == end

\* line 148: the run's end after an interval joined it
ExtendRun(current_end, end) == DateMax(current_end, end)

\* the loop body that forgets to restart the run at the new interval's start
LoopBody_KeepStart(st, x) ==
    IF JoinsRun(x.start, st.current_end)
    THEN [st EXCEPT !.current_end = ExtendRun(st.current_end, x.end)]
    ELSE [st EXCEPT !.current_end = x.end]

\* one pass of the loop body (lines 143-153) over entry x
LoopBody(st, x) ==
    IF JoinsRun(x.start, st.current_end)
    THEN [st EXCEPT !.current_end = ExtendRun(st.current_end, x.end)]
    ELSE [current_start |-> x.start,
          current_end   |-> x.end,
          total_months  |-> st.total_months
                            + MonthsBetween(st.current_start, st.current_end)]

\* the loop of lines 142-153, from index i on
RECURSIVE MergeWalk(_, _, _)
MergeWalk(parsed, i, st) ==
    IF i > Len(parsed) THEN st
    ELSE MergeWalk(parsed, i + 1, LoopBody(st, parsed[i]))

\* lines 139-156: total_months of a sorted, non-empty list
TotalMonths(parsed) ==
    LET Flush(st) ==
            st.total_months + MonthsBetween(st.current_start, st.current_end)
    IN Flush(MergeWalk(parsed, 2,
                 [current_start |-> parsed[1].start,
                  current_end   |-> parsed[1].end,
                  total_months  |-> 0]))

\* the runs the walk of lines 139-156 flushes, in order: the current run at
\* each pass through line 151 and the last run at line 156
RECURSIVE WalkRuns(_, _, _, _)
WalkRuns(parsed, i, st, runs) ==
    LET Current == [start |-> st.current_start, end |-> st.current_end]
    IN IF i > Len(parsed) THEN Append(runs, Current)
       ELSE WalkRuns(parsed, i + 1, LoopBody(st, parsed[i]),
                     IF JoinsRun(parsed[i].start, st.current_end)
                     THEN runs ELSE Append(runs, Current))

RunsOf(parsed) ==
    WalkRuns(parsed, 2,
             [current_start |-> parsed[1].start,
              current_end   |-> parsed[1].end,
              total_months  |-> 0],
             <<>>)

\* lines 159-162 (// and % of Python round toward minus infinity, as \div and %)
ToDuration(total_months) ==
    [years |-> total_months \div 12, months |-> total_months % 12]

\* a guard that tests for None only
NoExperiences_OnlyNone(exps) == exps.none

\* the guard of line 128
NoExperiences(exps) == Falsy(exps)

\* [exc, value]: the call's exception ("none" when it returns) and its result
calculate_total_work_experience(exps, today) ==
    IF NoExperiences(exps)
    THEN [exc |-> "none", value |-> [years |-> 0, months |-> 0]]
    ELSE LET Aggregate(p) ==
                 IF p.exc # "none" THEN [exc |-> p.exc, value |-> NoValue]
                 ELSE IF p.value = <<>>
                      THEN [exc |-> "IndexError", value |-> NoValue]  \* line 139
                      ELSE [exc |-> "none",
                            value |-> ToDuration(TotalMonths(SortByStart(p.value)))]
         IN Aggregate(ParseExperiences(exps.items, today, 0, <<>>))


(***************************************************************************)
(* Inputs of the aggregator                                                *)
(***************************************************************************)
S_2020_01_15 == <<"2", "0", "2", "0", "-", "0", "1", "-", "1", "5">>

S_2020_03_01 == <<"2", "0", "2", "0", "-", "0", "3", "-", "0", "1">>

S_2020_03_20 == <<"2", "0", "2", "0", "-", "3", "-", "2", "0">>

S_2021_02_10 == <<"2", "0", "2", "1", "-", "0", "2", "-", "1", "0">>

S_2021_02_30 == <<"2", "0", "2", "1", "-", "0", "2", "-", "3", "0">>

S_empty == <<>>

S_present == <<"p", "r", "e", "s", "e", "n", "t">>

\* well-formed date strings drawn as date_start / date_end
GoodStrings == {S_2020_01_15, S_2020_03_01, S_2021_02_10}

\* strings that are no date
BadStrings == {S_empty}

DateStrings == GoodStrings \cup BadStrings

\* entries as the signature declares them (Dict[str, str])
StrEntries == [date_start : DateStrings, date_end : DateStrings]

\* entries as ExperienceDto allows them (Optional[str])
ExperienceEntries ==
    [date_start : DateStrings \cup {None}, date_end : DateStrings \cup {None}]

\* every list of at most n entries
ListsUpTo(S, n) == UNION { [1..k -> S] : k \in 0..n }

ExperienceArgs ==
    { PyList(l) : l \in ListsUpTo(StrEntries, MaxExp)
                        \cup ListsUpTo(ExperienceEntries, MaxExpOptional) }
        \cup {NoneList}

\* the evaluation dates drawn
Today == { [year |-> 2020, month |-> 3, day |-> 1] }

\* one call of calculate_total_work_experience(experiences)
CalculateTotalWorkExperience ==
    /\ agg_pc = "ready"
    /\ \E r \in {calculate_total_work_experience(experiences, now)} :
          /\ agg_pc' = (IF r.exc = "none" THEN "returned" ELSE "raised")
          /\ work_experience' = (IF r.exc = "none" THEN r.value ELSE r.exc)
    /\ UNCHANGED <<experiences, now, skillVars, bucketVars, apiVars, resumeVars>>

NextAgg == CalculateTotalWorkExperience


(***************************************************************************)
(* ResumeScoringService.calculate_total_work_experience / parse_date       *)
(* (src/app/services/resume_scoring.py lines 423-477)                      *)
(***************************************************************************)
\* [exc, value, clock]: lines 474-477, only ValueError is caught
scoring_parse_date(date_string, today, k) ==
    LET Return(r) ==
            CASE r.exc = "none" -> [exc |-> "none", value |-> r.value, clock |-> k]
              [] r.exc = "ValueError" ->
                    [exc |-> "none", value |-> datetime_now(today, k), clock |-> k + 1]
              [] OTHER -> [exc |-> r.exc, value |-> NoValue, clock |-> k]
    IN Return(strptime(date_string))

\* lines 438-440: the list comprehension, start before end, entry by entry
RECURSIVE ScoringParsed(_, _, _, _)
ScoringParsed(exps, today, k, acc) ==
    LET Entry(start, end) ==
            CASE start.exc # "none" -> [exc |-> start.exc, value |-> NoValue]
              [] end.exc # "none" -> [exc |-> end.exc, value |-> NoValue]
              [] OTHER -> ScoringParsed(Tail(exps), today, end.clock,
                              Append(acc, [start |-> start.value, end |-> end.value]))
        AfterStart(start) ==
            IF start.exc # "none" THEN Entry(start, start)
            ELSE Entry(start, scoring_parse_date(Head(exps).date_end, today, start.clock))
    IN IF exps = <<>> THEN [exc |-> "none", value |-> acc]
       ELSE AfterStart(scoring_parse_date(Head(exps).date_start, today, k))

\* a count that takes both the first and the last month of a run
ScoringMonths_Inclusive(current_start, current_end) ==
    (current_end.year - current_start.year) * 12
        + current_end.month - current_start.month + 1

\* lines 456 and 461: the months a run adds to total_months
ScoringMonths(current_start, current_end) ==
    (current_end.year - current_start.year) * 12
        + current_end.month - current_start.month

\* lines 447-461: the loop from index i on, then the last run
RECURSIVE ScoringWalk(_, _, _, _, _)
ScoringWalk(parsed, i, current_start, current_end, total_months) ==
    IF i > Len(parsed)
    THEN total_months + ScoringMonths(current_start, current_end)
    ELSE IF DateLE(parsed[i].start, current_end)
         THEN ScoringWalk(parsed, i + 1, current_start,
                          DateMax(current_end, parsed[i].end), total_months)
         ELSE ScoringWalk(parsed, i + 1, parsed[i].start, parsed[i].end,
                          total_months + ScoringMonths(current_start, current_end))

\* [exc, value] of ResumeScoringService.calculate_total_work_experience
scoring_calculate_total_work_experience(exps, today) ==
    LET Total(sorted) ==
            ScoringWalk(sorted, 2, sorted[1].start, sorted[1].end, 0)
        Result(total_months) ==
            [exc |-> "none",
             value |-> [years |-> total_months \div 12, months |-> total_months % 12]]
        Aggregate(p) ==
            CASE p.exc # "none" -> [exc |-> p.exc, value |-> NoValue]
              [] p.value = <<>> -> [exc |-> "IndexError", value |-> NoValue]  \* line 444
              [] OTHER -> Result(Total(SortByStart(p.value)))
    IN IF Falsy(exps)                                                  \* line 433
       THEN [exc |-> "none", value |-> [years |-> 0, months |-> 0]]
       ELSE Aggregate(ScoringParsed(exps.items, today, 0, <<>>))

(***************************************************************************)
(* ResumeParser.parse_resume (resume_extraction.py lines 96-116) and       *)
(* ResumeScoringService.parse_resume (resume_scoring.py lines 144-163)     *)
(*                                                                         *)
(* structured_data is the dict GPT returned under ResumeSchema: a record   *)
(* [candidate_name, work_experience, educations_duration, experiences];    *)
(* a duration is [none, years, months], experiences a list (or None) of    *)
(* [company, date_start, date_end].  A call's result is [exc, value].      *)
(***************************************************************************)
Duration(years_, months_) == [none |-> FALSE, years |-> years_, months |-> months_]

NoDuration == [none |-> TRUE, years |-> 0, months |-> 0]

\* [{'date_start': exp['date_start'], 'date_end': exp['date_end']} for exp in ...]
DatesOf(experiences_array) ==
    [i \in 1..Len(experiences_array) |->
        [date_start |-> experiences_array[i].date_start,
         date_end   |-> experiences_array[i].date_end]]

\* a guard that tells only None from a list
HasExperiences_NotNone(data) == ~data.experiences.none

\* structured_data.get('experiences'): truthy for a list with an entry
HasExperiences(data) == ~Falsy(data.experiences)

\* resume_extraction.py lines 103-112.  experiences is a list under
\* ResumeSchema, so the wrapping of line 106 never applies.
parse_resume(data, today) ==
    LET Assign(r) ==
            IF r.exc # "none" THEN [exc |-> r.exc, value |-> NoValue]
            ELSE [exc |-> "none",
                  value |-> [data EXCEPT !.work_experience =
                                 Duration(r.value.years, r.value.months)]]
    IN IF HasExperiences(data)
       THEN Assign(calculate_total_work_experience(
                       PyList(DatesOf(data.experiences.items)), today))
       ELSE [exc |-> "none", value |-> data]

\* resume_scoring.py lines 150-159
scoring_parse_resume(data, today) ==
    LET Assign(r) ==
            IF r.exc # "none" THEN [exc |-> r.exc, value |-> NoValue]
            ELSE [exc |-> "none",
                  value |-> [data EXCEPT !.work_experience =
                                 Duration(r.value.years, r.value.months)]]
    IN IF HasExperiences(data)
       THEN Assign(scoring_calculate_total_work_experience(
                       PyList(DatesOf(data.experiences.items)), today))
       ELSE [exc |-> "none", value |-> data]

\* extract_with_prompts raised (gpt_service.py lines 69-71)
GptExtractionFailed == [exc |-> "GPT extraction failed", value |-> NoValue]

(***************************************************************************)
(* Inputs of parse_resume                                                  *)
(***************************************************************************)
\* entries of ResumeSchema.experiences (ExperienceDto)
ResumeExperiences ==
    [company : {"Acme"}, date_start : DateStrings \cup {None},
     date_end : DateStrings \cup {None}]

\* what GPT may put into work_experience (Optional[DurationDto])
ExtractedDurations == {NoDuration, Duration(7, 3)}

ExtractedResumes ==
    [candidate_name      : {"Cy"},
     work_experience     : ExtractedDurations,
     educations_duration : {Duration(4, 0)},
     experiences         : { PyList(l) : l \in ListsUpTo(ResumeExperiences, MaxExpOptional) }
                               \cup {NoneList}]

\* POST /api/parse-resume/: ResumeParser.parse_resume on the extraction
ResumeParserParseResume ==
    /\ resume_pc = "ready"
    /\ parser_result = <<>>
    /\ \/ parser_result' = <<parse_resume(structured_data, now)>>
       \/ parser_result' = <<GptExtractionFailed>>
    /\ UNCHANGED <<structured_data, resume_pc, scoring_result,
                   aggVars, skillVars, bucketVars, apiVars>>

\* ResumeScoringService.parse_resume on the extraction (called for each
\* file of a batch, resume_scoring.py line 56)
ResumeScoringServiceParseResume ==
    /\ resume_pc = "ready"
    /\ scoring_result = <<>>
    /\ \/ scoring_result' = <<scoring_parse_resume(structured_data, now)>>
       \/ scoring_result' = <<GptExtractionFailed>>
    /\ UNCHANGED <<structured_data, resume_pc, parser_result,
                   aggVars, skillVars, bucketVars, apiVars>>

NextResume ==
    \/ ResumeParserParseResume
    \/ ResumeScoringServiceParseResume

(***************************************************************************)
(* JobDescriptionEnhancer.map_unique_skills / map_skills_to_conditional    *)
(***************************************************************************)
\* the argument used as it comes, None included
OrEmptyList_AsGiven(x) == x

\* `x or []`
OrEmptyList(x) == IF Falsy(x) THEN PyList(<<>>) ELSE x

\* `s in lst` of Python
InList(s, lst) == \E i \in 1..Len(lst) : lst[i] = s

\* the loops of lines 59-62 and 63-66: first occurrences, in order
RECURSIVE UniqueInOrder(_, _)
UniqueInOrder(lst, acc) ==
    IF lst = <<>> THEN acc
    ELSE UniqueInOrder(Tail(lst),
             IF InList(Head(lst), acc) THEN acc ELSE Append(acc, Head(lst)))

\* line 70
conflicts == {"Problem Solving", "Communication", "Critical Thinking"}

\* line 68: the secondary skills that are no primary skill
ExcludePrimary(unique_secondary, unique_primary) ==
    SelectSeq(unique_secondary, LAMBDA s : ~InList(s, unique_primary))

\* a filter that matches the conflict labels whatever their case
ExcludeConflicts_IgnoreCase(filtered_secondary) ==
    SelectSeq(filtered_secondary,
              LAMBDA s : s \notin conflicts \cup {"communication"})

\* no filter of the conflict labels
ExcludeConflicts_Keep(filtered_secondary) == filtered_secondary

\* line 71
ExcludeConflicts(filtered_secondary) ==
    SelectSeq(filtered_secondary, LAMBDA s : s \notin conflicts)

\* [exc, skills, subskills]: `for s in primary_skills` (lines 60, 64)
\* raises TypeError when the list it walks is None
map_unique_skills(primary, secondary) ==
    LET Return(unique_primary, unique_secondary) ==
            [exc       |-> "None",
             skills    |-> unique_primary,
             subskills |-> ExcludeConflicts(
                               ExcludePrimary(unique_secondary, unique_primary))]
        Body(p, s) ==
            IF p.none \/ s.none
            THEN [exc |-> "TypeError", skills |-> <<>>, subskills |-> <<>>]
            ELSE Return(UniqueInOrder(p.items, <<>>), UniqueInOrder(s.items, <<>>))
    IN Body(OrEmptyList(primary), OrEmptyList(secondary))

\* a pairwise mapping: the i-th skill gets the i-th subskill only
BuildMapping_Pairwise(u) ==
    [i \in 1..Len(u.skills) |->
        [skill     |-> u.skills[i],
         subskills |-> IF i <= Len(u.subskills)
                       THEN <<[subskill |-> u.subskills[i]]>> ELSE <<>>]]

\* lines 82-87: one entry per skill, each with all the subskills
BuildMapping(u) ==
    [i \in 1..Len(u.skills) |->
        [skill     |-> u.skills[i],
         subskills |-> [j \in 1..Len(u.subskills) |-> [subskill |-> u.subskills[j]]]]]

\* [exc, value]: the mapping list, or the exception of map_unique_skills
map_skills_to_conditional(primary, secondary) ==
    LET Return(u) == [exc   |-> u.exc,
                      value |-> IF u.exc = "None" THEN BuildMapping(u) ELSE <<>>]
    IN Return(map_unique_skills(primary, secondary))

(***************************************************************************)
(* Inputs of the skill mapping                                             *)
(***************************************************************************)
SkillNames == {"Python", "SQL", "Communication", "communication"}

SkillArgs == { PyList(l) : l \in ListsUpTo(SkillNames, MaxSkills) } \cup {NoneList}

\* one call of map_unique_skills(primary_skills, secondary_skills)
MapUniqueSkills ==
    /\ skills_pc = "ready"
    /\ \E u \in {map_unique_skills(primary_skills, secondary_skills)} :
          IF u.exc = "None"
          THEN /\ unique' = [skills |-> u.skills, subskills |-> u.subskills]
               /\ skills_pc' = "unique_returned"
          ELSE /\ unique' = u.exc
               /\ skills_pc' = "raised"
    /\ UNCHANGED <<primary_skills, secondary_skills, mapping,
                   aggVars, bucketVars, apiVars, resumeVars>>

\* one call of map_skills_to_conditional(primary_skills, secondary_skills)
MapSkillsToConditional ==
    /\ skills_pc = "ready"
    /\ \E u \in {map_unique_skills(primary_skills, secondary_skills)},
          m \in {map_skills_to_conditional(primary_skills, secondary_skills)} :
          IF m.exc = "None"
          THEN /\ unique' = [skills |-> u.skills, subskills |-> u.subskills]
               /\ mapping' = m.value
               /\ skills_pc' = "mapping_returned"
          ELSE /\ unique' = m.exc
               /\ mapping' = m.exc
               /\ skills_pc' = "raised"
    /\ UNCHANGED <<primary_skills, secondary_skills,
                   aggVars, bucketVars, apiVars, resumeVars>>

NextSkills ==
    \/ MapUniqueSkills
    \/ MapSkillsToConditional

(***************************************************************************)
(* JobDescriptionEnhancer.map_experience_to_bucket                         *)
(*                                                                         *)
(* A Python number is a record [none, floor, whole]: floor is the largest  *)
(* integer not above it, whole tells whether it is that integer (1 is      *)
(* [floor 1, whole], 15.99 is [floor 15, not whole]).  For an integer n,   *)
(* `years < n` is decided by the floor alone.                              *)
(***************************************************************************)
PyNumber(floor, whole) == [none |-> FALSE, floor |-> floor, whole |-> whole]

NoneNumber == [none |-> TRUE, floor |-> 0, whole |-> TRUE]

\* `years < n` for an int n
NumberLT_Inclusive(x, n) == x.floor < n \/ (x.floor = n /\ x.whole)

NumberLT(x, n) == x.floor < n

\* lines 36-48; [exc, value]: `None < 1` raises TypeError
map_experience_to_bucket(y) ==
    IF y.none THEN [exc |-> "TypeError", value |-> NoValue]
    ELSE [exc   |-> "None",
          value |-> IF NumberLT(y, 1) THEN "0-1"
                    ELSE IF NumberLT(y, 2) THEN "1-2"
                    ELSE IF NumberLT(y, 4) THEN "2-4"
                    ELSE IF NumberLT(y, 8) THEN "4-8"
                    ELSE IF NumberLT(y, 16) THEN "8-16"
                    ELSE "16+"]

YearsArgs ==
    { PyNumber(f, w) : f \in (-2)..MaxYears, w \in BOOLEAN } \cup {NoneNumber}

\* one call of map_experience_to_bucket(years)
MapExperienceToBucket ==
    /\ bucket_pc = "ready"
    /\ \E r \in {map_experience_to_bucket(years)} :
          IF r.exc = "None"
          THEN /\ bucket_label' = r.value
               /\ bucket_pc' = "returned"
          ELSE /\ bucket_label' = r.exc
               /\ bucket_pc' = "raised"
    /\ UNCHANGED <<years, aggVars, skillVars, apiVars, resumeVars>>

NextBucket == MapExperienceToBucket

(***************************************************************************)
(* Neo4jService (src/app/services/neo4j_service.py)                        *)
(*                                                                         *)
(* The database is a record [nodes, edges, score]: nodes is a bag of       *)
(* [label, key] (key is the name, title or range property), edges a bag of *)
(* [type, from, to], score the score property of the Candidate nodes.      *)
(* Bags, so that a write that creates a second node or edge for an         *)
(* existing key shows.  Each operator below is one session.run: MATCH      *)
(* that finds no node ends the statement without a write, MERGE creates    *)
(* what is absent.                                                         *)
(***************************************************************************)
Node(label, key) == [label |-> label, key |-> key]

Edge(type, from, to) == [type |-> type, from |-> from, to |-> to]

EmptyGraph == [nodes |-> EmptyBag, edges |-> EmptyBag, score |-> {}]

\* MATCH (n:label {key})
Match(g, n) == BagIn(n, g.nodes)

\* CREATE (n): a new node whether or not one with the key exists
MergeNode_Create(g, n) == [g EXCEPT !.nodes = @ (+) SetToBag({n})]

\* MERGE (n:label {key})
MergeNode(g, n) ==
    IF Match(g, n) THEN g ELSE [g EXCEPT !.nodes = @ (+) SetToBag({n})]

\* MERGE (from)-[:type]->(to), both nodes bound
MergeEdge(g, e) ==
    IF BagIn(e, g.edges) THEN g ELSE [g EXCEPT !.edges = @ (+) SetToBag({e})]

\* SET c.score = overall_score
SetScore(g, candidate_name, overall_score) ==
    [g EXCEPT !.score = { p \in @ : p.name # candidate_name }
                            \cup {[name |-> candidate_name, score |-> overall_score]}]

Finances == Node("Industry", "Finances")

RiskAdvisory == Node("JobRole", "Risk Advisory & Internal Auditor")

\* lines 18-21
add_industry(g, industry_name) == MergeNode(g, Node("Industry", industry_name))

\* lines 23-34
add_job_role(g, industry_name, job_title) ==
    IF ~Match(g, Node("Industry", industry_name)) THEN g
    ELSE MergeEdge(MergeNode(g, Node("JobRole", job_title)),
                   Edge("HAS_JOB_ROLE", Node("Industry", industry_name),
                        Node("JobRole", job_title)))

\* lines 36-48
create_experience_node(g, experience_bucket) ==
    LET e == Node("Experience", experience_bucket)
        g1 == MergeNode(g, Finances)
        g2 == MergeNode(g1, RiskAdvisory)
        g3 == MergeEdge(g2, Edge("HAS_JOB_ROLE", Finances, RiskAdvisory))
        g4 == MergeNode(g3, e)
    IN MergeEdge(g4, Edge("HAS_EXPERIENCE_RANGE", RiskAdvisory, e))

\* a write that merges the Skill node without the HAS_SKILL relationship
add_skill_NodeOnly(g, experience_bucket, skill_name) ==
    IF ~Match(g, Node("Experience", experience_bucket)) THEN g
    ELSE MergeNode(g, Node("Skill", skill_name))

\* lines 50-61
add_skill(g, experience_bucket, skill_name) ==
    LET e == Node("Experience", experience_bucket)
        s == Node("Skill", skill_name)
    IN IF ~Match(g, e) THEN g
       ELSE MergeEdge(MergeNode(g, s), Edge("HAS_SKILL", e, s))

\* lines 63-76
create_subskill_under_skill(g, experience_bucket, skill_name, subskill_name) ==
    LET e  == Node("Experience", experience_bucket)
        s  == Node("Skill", skill_name)
        ss == Node("SubSkill", subskill_name)
    IN IF ~Match(g, e) \/ ~Match(g, s) THEN g
       ELSE MergeEdge(MergeNode(g, ss), Edge("HAS_SUBSKILL", s, ss))

\* lines 78-88
create_candidate(g, candidate_name, overall_score) ==
    SetScore(MergeNode(g, Node("Candidate", candidate_name)),
             candidate_name, overall_score)

\* lines 90-101
link_candidate_to_subskill(g, candidate_name, subskill_name) ==
    LET c  == Node("Candidate", candidate_name)
        ss == Node("SubSkill", subskill_name)
    IN IF ~Match(g, c) \/ ~Match(g, ss) THEN g
       ELSE MergeEdge(g, Edge("BELONGS_TO_SUBSKILL", c, ss))

\* lines 103-114
link_candidate_to_skill(g, candidate_name, skill_name) ==
    LET c == Node("Candidate", candidate_name)
        s == Node("Skill", skill_name)
    IN IF ~Match(g, c) \/ ~Match(g, s) THEN g
       ELSE MergeEdge(g, Edge("BELONGS_TO_SKILL", c, s))

\* the nodes of a label, the edge of a type between two nodes
NodesOf(g, label) == { n \in BagToSet(g.nodes) : n.label = label }

Linked(g, type, from, to) == BagIn(Edge(type, from, to), g.edges)

ScoreOf(g, candidate_name) ==
    (CHOOSE q \in g.score : q.name = candidate_name).score

\* lines 129-152: the rows returned, as a set (the query fixes no order)
find_candidates_for_same_experience_skill(g, experience_bucket, skill_name) ==
    LET e == Node("Experience", experience_bucket)
        s == Node("Skill", skill_name)
    IN IF ~(/\ Match(g, RiskAdvisory) /\ Match(g, e) /\ Match(g, s)
            /\ Linked(g, "HAS_EXPERIENCE_RANGE", RiskAdvisory, e)
            /\ Linked(g, "HAS_SKILL", e, s))
       THEN {}
       ELSE { [candidate_name   |-> c.key,
               candidate_score  |-> ScoreOf(g, c.key),
               candidate_skills |->
                   { o.key : o \in { x \in NodesOf(g, "Skill") :
                                        Linked(g, "BELONGS_TO_SKILL", c, x) } }] :
              c \in { x \in NodesOf(g, "Candidate") :
                         Linked(g, "BELONGS_TO_SKILL", x, s) } }

\* lines 154-181: the rows returned, as a set
find_matching_candidates(g, experience_bucket, skill_name, subskill_name) ==
    LET e  == Node("Experience", experience_bucket)
        s  == Node("Skill", skill_name)
        ss == Node("SubSkill", subskill_name)
    IN IF ~(/\ Match(g, Finances) /\ Match(g, RiskAdvisory)
            /\ Match(g, e) /\ Match(g, s) /\ Match(g, ss)
            /\ Linked(g, "HAS_JOB_ROLE", Finances, RiskAdvisory)
            /\ Linked(g, "HAS_EXPERIENCE_RANGE", RiskAdvisory, e)
            /\ Linked(g, "HAS_SKILL", e, s)
            /\ Linked(g, "HAS_SUBSKILL", s, ss))
       THEN {}
       ELSE { [candidate_name  |-> c.key,
               candidate_score |-> ScoreOf(g, c.key)] :
              c \in { x \in NodesOf(g, "Candidate") :
                         Linked(g, "BELONGS_TO_SUBSKILL", x, ss) } }

(***************************************************************************)
(* JobDescriptionEnhancer.enhance_job_description: the graph projection    *)
(*                                                                         *)
(* A candidate of candidate_list is a record [is_dict, full_name, score,   *)
(* experience, key_skills]; experience is [none, years] and key_skills is  *)
(* [none, primary_skills, secondary_skills], each none when the value is   *)
(* None.  A call of a Neo4jService method is a record [op, args, score].   *)
(***************************************************************************)
Call(op, args) == [op |-> op, args |-> args, score |-> 0]

CreateCandidateCall(candidate_name, candidate_score) ==
    [op |-> "create_candidate", args |-> <<candidate_name>>, score |-> candidate_score]

\* the effect of one call on the database
Apply(g, call) ==
    CASE call.op = "add_industry" -> add_industry(g, call.args[1])
      [] call.op = "add_job_role" -> add_job_role(g, call.args[1], call.args[2])
      [] call.op = "create_experience_node" -> create_experience_node(g, call.args[1])
      [] call.op = "create_candidate" -> create_candidate(g, call.args[1], call.score)
      [] call.op = "add_skill" -> add_skill(g, call.args[1], call.args[2])
      [] call.op = "create_subskill_under_skill" ->
             create_subskill_under_skill(g, call.args[1], call.args[2], call.args[3])
      [] call.op = "link_candidate_to_subskill" ->
             link_candidate_to_subskill(g, call.args[1], call.args[2])
      [] call.op = "link_candidate_to_skill" ->
             link_candidate_to_skill(g, call.args[1], call.args[2])

RECURSIVE ApplyAll(_, _)
ApplyAll(g, calls) ==
    IF calls = <<>> THEN g ELSE ApplyAll(Apply(g, Head(calls)), Tail(calls))

\* whether the MATCH clauses of the call's statement find their nodes in g
\* (neo4j_service.py lines 27, 55, 68-69, 95-96, 108-109); a statement of
\* MERGE clauses only always writes
Matched(g, call) ==
    CASE call.op = "add_job_role" -> Match(g, Node("Industry", call.args[1]))
      [] call.op = "add_skill" -> Match(g, Node("Experience", call.args[1]))
      [] call.op = "create_subskill_under_skill" ->
             Match(g, Node("Experience", call.args[1]))
                 /\ Match(g, Node("Skill", call.args[2]))
      [] call.op = "link_candidate_to_subskill" ->
             Match(g, Node("Candidate", call.args[1]))
                 /\ Match(g, Node("SubSkill", call.args[2]))
      [] call.op = "link_candidate_to_skill" ->
             Match(g, Node("Candidate", call.args[1]))
                 /\ Match(g, Node("Skill", call.args[2]))
      [] OTHER -> TRUE

\* the calls made one after the other on g: [graph, noops], the database
\* they leave and those of them that matched nothing
RECURSIVE RunCalls(_, _, _)
RunCalls(g, calls, noops) ==
    IF calls = <<>> THEN [graph |-> g, noops |-> noops]
    ELSE RunCalls(Apply(g, Head(calls)), Tail(calls),
                  IF Matched(g, Head(calls)) THEN noops ELSE noops \cup {Head(calls)})

\* lines 108-110: `c.get("experience") or {"years": 0, "months": 0}`, then
\* line 113: experience_data.get("years", 0)
ExperienceYears(c) ==
    IF c.experience.none THEN PyNumber(0, TRUE) ELSE c.experience.years

\* lines 119-121: `c.get("key_skills") or {}` and the two .get(.., [])
PrimarySkillsOf(c) ==
    IF c.key_skills.none THEN PyList(<<>>) ELSE c.key_skills.primary_skills

SecondarySkillsOf(c) ==
    IF c.key_skills.none THEN PyList(<<>>) ELSE c.key_skills.secondary_skills

\* lines 127-129: create_subskill_under_skill for each subskill of the entry
CreateSubskillCalls(experience_bucket, skill_name, subskills) ==
    [k \in 1..Len(subskills) |->
        Call("create_subskill_under_skill",
             <<experience_bucket, skill_name, subskills[k].subskill>>)]

\* lines 131-132: link_candidate_to_subskill for each subskill of the entry
LinkSubskillCalls(candidate_name, subskills) ==
    [k \in 1..Len(subskills) |->
        Call("link_candidate_to_subskill", <<candidate_name, subskills[k].subskill>>)]

\* a linking that always adds the direct link to the skill
LinkCalls_AlsoDirect(experience_bucket, candidate_name, mapping_entry) ==
    CreateSubskillCalls(experience_bucket, mapping_entry.skill, mapping_entry.subskills)
    \o LinkSubskillCalls(candidate_name, mapping_entry.subskills)
    \o <<Call("link_candidate_to_skill", <<candidate_name, mapping_entry.skill>>)>>

\* a linking that links the candidate before it creates the subskills
LinkCalls_LinkFirst(experience_bucket, candidate_name, mapping_entry) ==
    IF mapping_entry.subskills # <<>>
    THEN LinkSubskillCalls(candidate_name, mapping_entry.subskills)
         \o CreateSubskillCalls(experience_bucket, mapping_entry.skill,
                                mapping_entry.subskills)
    ELSE <<Call("link_candidate_to_skill", <<candidate_name, mapping_entry.skill>>)>>

\* lines 126-134: the conditional linking of one mapping entry
LinkCalls(experience_bucket, candidate_name, mapping_entry) ==
    IF mapping_entry.subskills # <<>>
    THEN CreateSubskillCalls(experience_bucket, mapping_entry.skill,
                             mapping_entry.subskills)
         \o LinkSubskillCalls(candidate_name, mapping_entry.subskills)
    ELSE <<Call("link_candidate_to_skill", <<candidate_name, mapping_entry.skill>>)>>

\* lines 123-134: the calls of the loop over combined_mapping
RECURSIVE MappingCalls(_, _, _)
MappingCalls(experience_bucket, candidate_name, combined_mapping) ==
    IF combined_mapping = <<>> THEN <<>>
    ELSE <<Call("add_skill", <<experience_bucket, Head(combined_mapping).skill>>)>>
         \o LinkCalls(experience_bucket, candidate_name, Head(combined_mapping))
         \o MappingCalls(experience_bucket, candidate_name, Tail(combined_mapping))

\* a loop body with no test of the entry: candidate.get of line 110 raises
\* for an entry that is no dict
CandidateCalls_NoGuard(c) ==
    IF ~c.is_dict THEN [exc |-> "AttributeError", calls |-> <<>>]
    ELSE LET b == map_experience_to_bucket(ExperienceYears(c))
             m == map_skills_to_conditional(PrimarySkillsOf(c), SecondarySkillsOf(c))
             first == <<Call("create_experience_node", <<b.value>>),
                        CreateCandidateCall(c.full_name, c.score)>>
         IN IF b.exc # "None" THEN [exc |-> b.exc, calls |-> <<>>]
            ELSE IF m.exc # "None" THEN [exc |-> m.exc, calls |-> first]
            ELSE [exc   |-> "None",
                  calls |-> first \o MappingCalls(b.value, c.full_name, m.value)]

\* lines 106-134, one candidate: [exc, calls], the calls made before the
\* candidate is done or an exception leaves the loop
CandidateCalls(c) ==
    LET AfterBucket(b) ==
            LET first == <<Call("create_experience_node", <<b.value>>),
                           CreateCandidateCall(c.full_name, c.score)>>
                AfterMapping(m) ==
                    IF m.exc # "None" THEN [exc |-> m.exc, calls |-> first]
                    ELSE [exc   |-> "None",
                          calls |-> first \o MappingCalls(b.value, c.full_name, m.value)]
            IN AfterMapping(map_skills_to_conditional(PrimarySkillsOf(c),
                                                      SecondarySkillsOf(c)))
    IN IF ~c.is_dict THEN [exc |-> "None", calls |-> <<>>]
       ELSE LET Continue(b) ==
                    IF b.exc # "None" THEN [exc |-> b.exc, calls |-> <<>>]
                    ELSE AfterBucket(b)
            IN Continue(map_experience_to_bucket(ExperienceYears(c)))

\* lines 105-134: the loop over candidate_list
RECURSIVE CandidateListCalls(_, _)
CandidateListCalls(candidate_list, acc) ==
    IF candidate_list = <<>> THEN [exc |-> "None", calls |-> acc]
    ELSE LET Continue(r) ==
                 IF r.exc # "None" THEN [exc |-> r.exc, calls |-> acc \o r.calls]
                 ELSE CandidateListCalls(Tail(candidate_list), acc \o r.calls)
         IN Continue(CandidateCalls(Head(candidate_list)))

\* lines 103-134: every Neo4jService call of one enhance_job_description
ProjectionCalls(candidate_list) ==
    CandidateListCalls(candidate_list,
        <<Call("add_industry", <<"Finances">>),
          Call("add_job_role", <<"Finances", "Risk Advisory & Internal Auditor">>)>>)

(***************************************************************************)
(* The API: POST /api/job-description-enhance/ and POST /api/score-resumes/*)
(* (src/app/main.py), over one JobDescriptionEnhancer and its database     *)
(***************************************************************************)
\* a value of the temp_storage dict: <<>> when the key is absent, <<v>>
\* when it holds v
Absent == <<>>

Stored(v) == <<v>>

\* a membership test that finds every key
HasKey_Always(storage, key) == TRUE

\* `key in storage`
HasKey(storage, key) == storage[key] # <<>>

EmptyStorage ==
    [enhanced_job_description |-> Absent, candidates |-> Absent, vectorized_jd |-> Absent]

NoResponse == [endpoint |-> "none", status |-> 0, error |-> "None", scored |-> 0]

ErrJdNotFound ==
    "Enhanced Job Description not found. Run /api/job-description-enhance first."

\* lines 99-100: the enhanced description, its two fields overwritten; what
\* GPT wrote is told apart by the file it came from
EnhancedJd(filename) ==
    [industry_name |-> "Finances",
     job_title     |-> "Risk Advisory & Internal Auditor",
     filename      |-> filename]

\* vectorize_job_description never raises (lines 262-275 catch every
\* exception and return []): the list it returns, whatever its content
Vectorized(enhanced_jd) == <<"embedding", enhanced_jd.filename>>

\* the facts a sequence of executed calls establishes: which candidate was
\* written under which bucket, and linked for which skill and subskill
NoName == ""

Fact(candidate, bucket, skill, subskill) ==
    [candidate |-> candidate, bucket |-> bucket, skill |-> skill, subskill |-> subskill]

RECURSIVE FactsOf(_, _, _, _)
FactsOf(calls, bucket, skill, acc) ==
    IF calls = <<>> THEN acc
    ELSE LET call == Head(calls)
         IN CASE call.op = "create_experience_node" ->
                    FactsOf(Tail(calls), call.args[1], NoName, acc)
              [] call.op = "add_skill" ->
                    FactsOf(Tail(calls), bucket, call.args[2], acc)
              [] call.op = "create_candidate" ->
                    FactsOf(Tail(calls), bucket, skill,
                            acc \cup {Fact(call.args[1], bucket, NoName, NoName)})
              [] call.op = "link_candidate_to_subskill" ->
                    FactsOf(Tail(calls), bucket, skill,
                            acc \cup {Fact(call.args[1], bucket, skill, call.args[2])})
              [] call.op = "link_candidate_to_skill" ->
                    FactsOf(Tail(calls), bucket, skill,
                            acc \cup {Fact(call.args[1], bucket, call.args[2], NoName)})
              [] OTHER -> FactsOf(Tail(calls), bucket, skill, acc)

(***************************************************************************)
(* Inputs of the API                                                       *)
(***************************************************************************)
Experience(whole_years) == [none |-> FALSE, years |-> PyNumber(whole_years, TRUE)]

NoExperience == [none |-> TRUE, years |-> PyNumber(0, TRUE)]

KeySkills(primary, secondary) ==
    [none |-> FALSE, primary_skills |-> primary, secondary_skills |-> secondary]

NoKeySkills == [none |-> TRUE, primary_skills |-> NoneList, secondary_skills |-> NoneList]

Candidate(full_name, score, experience, key_skills) ==
    [is_dict |-> TRUE, full_name |-> full_name, score |-> score,
     experience |-> experience, key_skills |-> key_skills]

\* an entry of candidate_list that is None or no dict
NotADict ==
    [is_dict |-> FALSE, full_name |-> "", score |-> 0,
     experience |-> NoExperience, key_skills |-> NoKeySkills]

Ann_Junior ==
    Candidate("Ann", 8, Experience(0),
              KeySkills(PyList(<<"Python">>), PyList(<<"SQL", "Communication">>)))

Bob_Senior ==
    Candidate("Bob", 6, Experience(5),
              KeySkills(PyList(<<"Python">>), PyList(<<"SQL">>)))

Ann_Generalist ==
    Candidate("Ann", 4, NoExperience,
              KeySkills(PyList(<<"Python", "SQL">>), PyList(<<"Communication">>)))

Bob_Analyst ==
    Candidate("Bob", 10, Experience(4), KeySkills(PyList(<<"SQL">>), NoneList))

CandidateProfiles ==
    {Ann_Junior, Bob_Senior, Ann_Generalist, Bob_Analyst, NotADict}

\* the order in which GPT lists the profiles it generates
Roster == <<Ann_Junior, Ann_Generalist, Bob_Senior, Bob_Analyst>>

RosterIndex(c) == CHOOSE k \in 1..Len(Roster) : Roster[k] = c

\* the lists GPT may generate: up to MaxCandidates different profiles in
\* roster order, with or without one entry that is no dict before, between
\* or after them
CandidateLists ==
    { l \in ListsUpTo(CandidateProfiles, MaxCandidates + 1) :
        /\ \A i, j \in 1..Len(l) :
              i < j => IF l[i].is_dict /\ l[j].is_dict
                       THEN RosterIndex(l[i]) < RosterIndex(l[j])
                       ELSE l[i] # l[j]
        /\ Cardinality({ i \in 1..Len(l) : l[i].is_dict }) <= MaxCandidates }

Filenames == {"jd.pdf"}

Response(endpoint, status, error, scored) ==
    [endpoint |-> endpoint, status |-> status, error |-> error, scored |-> scored]

\* a request to the enhance endpoint: the file sent and the candidate_list
\* GPT generates for it
Upload(filename, candidate_list) ==
    [filename |-> filename, candidate_list |-> candidate_list]

\* one job description, any list of candidates
Uploads == { Upload(filename, l) : filename \in Filenames, l \in CandidateLists }

\* two job descriptions, each with the candidates GPT generates for it
FewUploads ==
    {Upload("jd.pdf", <<Ann_Junior>>), Upload("jd_v2.pdf", <<Bob_Analyst>>)}

\* the number of Neo4jService calls that return before one raises: all of
\* them when the database stays available
WritesCompleted(faults, calls) ==
    IF faults THEN 0..Len(calls) ELSE {Len(calls)}

\* a store that leaves the candidates of the call before
StoreResult_KeepCandidates(storage, enhanced_jd, candidates, vectorized_jd) ==
    [storage EXCEPT !.enhanced_job_description = Stored(enhanced_jd),
                    !.vectorized_jd = Stored(vectorized_jd)]

\* lines 136-138: three assignments with no await between them
StoreResult(storage, enhanced_jd, candidates, vectorized_jd) ==
    [storage EXCEPT !.enhanced_job_description = Stored(enhanced_jd),
                    !.candidates = Stored(candidates),
                    !.vectorized_jd = Stored(vectorized_jd)]

\* POST /api/job-description-enhance/ (main.py lines 85-98) with
\* enhance_job_description (lines 90-146).  Either the call fails before
\* its first write (GPT or the database is unavailable) and raises, or GPT
\* generates candidate_list and the calls of the projection run in order;
\* where the database may fail, any of them may raise after those before it
\* returned.  temp_storage is written and the call returns only when no
\* exception left the loop.  The call reads and writes temp_storage in
\* lines 136-138 only, behind its last await, so it is one step whatever
\* else is suspended meanwhile.
JobDescriptionEnhance ==
    /\ api_pc = "up"
    /\ \/ /\ \E error \in {"GPT extraction failed", "Neo4j unavailable"} :
               response' = Response("enhance", 500, error, 0)
          /\ UNCHANGED <<graph, temp_storage, projected, enhance_returned, silent_noops>>
       \/ \E upload \in uploads :
            \E p \in {ProjectionCalls(upload.candidate_list)} :
              \E completed \in WritesCompleted(db_faults, p.calls) :
                \E done \in {SubSeq(p.calls, 1, completed)} :
                  \E run \in {RunCalls(graph, done, {})} :
                    /\ graph' = run.graph
                    /\ silent_noops' = silent_noops \cup run.noops
                    /\ projected' = projected \cup FactsOf(done, NoName, NoName, {})
                    /\ IF completed = Len(p.calls) /\ p.exc = "None"
                       THEN /\ temp_storage' =
                                 StoreResult(temp_storage,
                                             EnhancedJd(upload.filename),
                                             [candidate_list |-> upload.candidate_list],
                                             Vectorized(EnhancedJd(upload.filename)))
                            /\ response' = Response("enhance", 200, "None", 0)
                            /\ enhance_returned' = TRUE
                       ELSE /\ response' =
                                 Response("enhance", 500,
                                          IF completed < Len(p.calls)
                                          THEN "Neo4j write failed" ELSE p.exc, 0)
                            /\ UNCHANGED <<temp_storage, enhance_returned>>
    /\ UNCHANGED <<api_pc, uploads, db_faults, batch,
                   aggVars, skillVars, bucketVars, resumeVars>>

\* POST /api/score-resumes/ (main.py lines 101-120) with
\* process_bulk_resumes (resume_scoring.py lines 31-71): n files are sent;
\* scored counts the resumes compared before the call ended.  The
\* HTTPException(400) of line 112 is raised inside the try of line 110:
\* `except Exception` (line 118) catches it, HTTPException being an
\* Exception, and line 120 answers 500 for it as for every other failure.
ScoreResumes ==
    /\ api_pc = "up"
    /\ batch.pc = "none"
    /\ \E n \in 0..MaxFiles :
         IF n = 0
         THEN response' = Response("score", 500, "No resume files provided.", 0)
         ELSE IF ~HasKey(temp_storage, "enhanced_job_description")
         THEN response' = Response("score", 500, ErrJdNotFound, 0)
         ELSE IF ~HasKey(temp_storage, "candidates")
         THEN response' = Response("score", 500, "KeyError", 0)
         ELSE \/ response' = Response("score", 200, "None", n)
              \/ \E failing \in 1..n :
                    response' = Response("score", 500, "GPT extraction failed", failing - 1)
    /\ UNCHANGED <<api_pc, graph, temp_storage, projected, enhance_returned,
                   uploads, db_faults, batch, silent_noops,
                   aggVars, skillVars, bucketVars, resumeVars>>

NextApi ==
    \/ JobDescriptionEnhance
    \/ ScoreResumes

(***************************************************************************)
(* score_resumes step by step: process_bulk_resumes may be suspended at    *)
(* the awaits of its loop (resume_scoring.py lines 56 and 62), and other   *)
(* requests are served meanwhile.  batch is the suspended call: its        *)
(* position, the number of files, its local variables enhanced_jd and      *)
(* generated_candidates, and for each resume compared so far the criteria  *)
(* it was compared against.                                                *)
(***************************************************************************)
NoBatch ==
    [pc |-> "none", files |-> 0, enhanced_jd |-> Absent,
     generated_candidates |-> Absent, compared |-> <<>>]

\* criteria read from temp_storage again for each resume
CriteriaOf_Reread(b, storage) ==
    [enhanced_jd |-> storage.enhanced_job_description, candidates |-> storage.candidates]

\* lines 59 and 62: the criteria of a comparison are the local variables
CriteriaOf(b, storage) ==
    [enhanced_jd |-> b.enhanced_jd, candidates |-> b.generated_candidates]

\* what temp_storage holds under the two keys process_bulk_resumes reads
StoredPair(storage) ==
    [enhanced_jd |-> storage.enhanced_job_description, candidates |-> storage.candidates]

\* main.py lines 110-116 and resume_scoring.py lines 44-51: the guards, and
\* the two reads of temp_storage with no await between them
ScoreResumesBegin ==
    /\ api_pc = "up"
    /\ batch.pc # "scoring"
    /\ \E n \in 0..MaxFiles :
         IF n = 0
         THEN /\ response' = Response("score", 500, "No resume files provided.", 0)
              /\ batch' = NoBatch
         ELSE IF ~HasKey(temp_storage, "enhanced_job_description")
         THEN /\ response' = Response("score", 500, ErrJdNotFound, 0)
              /\ batch' = NoBatch
         ELSE IF ~HasKey(temp_storage, "candidates")
         THEN /\ response' = Response("score", 500, "KeyError", 0)
              /\ batch' = NoBatch
         ELSE /\ batch' = [pc |-> "scoring", files |-> n,
                           enhanced_jd |-> temp_storage.enhanced_job_description,
                           generated_candidates |-> temp_storage.candidates,
                           compared |-> <<>>]
              /\ UNCHANGED response
    /\ UNCHANGED <<api_pc, graph, temp_storage, projected, enhance_returned,
                   uploads, db_faults, silent_noops,
                   aggVars, skillVars, bucketVars, resumeVars>>

\* lines 52-67: one pass of the loop, which raises when GPT fails and
\* returns behind the last resume; each comparison records whether
\* temp_storage at that time still held what the call had read
ScoreResumesNext ==
    /\ api_pc = "up"
    /\ batch.pc = "scoring"
    /\ \/ /\ response' = Response("score", 500, "GPT extraction failed",
                                  Len(batch.compared))
          /\ batch' = [batch EXCEPT !.pc = "raised"]
       \/ \E c \in {CriteriaOf(batch, temp_storage)} :
            \E compared \in
                 {Append(batch.compared,
                         [enhanced_jd |-> c.enhanced_jd, candidates |-> c.candidates,
                          overwritten |-> StoredPair(temp_storage)
                                             # CriteriaOf(batch, temp_storage)])} :
              IF Len(compared) = batch.files
              THEN /\ batch' = [batch EXCEPT !.pc = "returned", !.compared = compared]
                   /\ response' = Response("score", 200, "None", batch.files)
              ELSE /\ batch' = [batch EXCEPT !.compared = compared]
                   /\ UNCHANGED response
    /\ UNCHANGED <<api_pc, graph, temp_storage, projected, enhance_returned,
                   uploads, db_faults, silent_noops,
                   aggVars, skillVars, bucketVars, resumeVars>>

NextApiAsync ==
    \/ JobDescriptionEnhance
    \/ ScoreResumesBegin
    \/ ScoreResumesNext

(***************************************************************************)
(* Specifications: one per component, and the components together          *)
(***************************************************************************)
InitAggIdle ==
    /\ experiences = NoneList
    /\ now \in Today
    /\ agg_pc = "idle"
    /\ work_experience = NoValue

InitSkillsIdle ==
    /\ primary_skills = NoneList
    /\ secondary_skills = NoneList
    /\ skills_pc = "idle"
    /\ unique = NoValue
    /\ mapping = NoValue

InitBucketIdle ==
    /\ years = NoneNumber
    /\ bucket_pc = "idle"
    /\ bucket_label = NoValue

InitApiIdle ==
    /\ api_pc = "idle"
    /\ graph = EmptyGraph
    /\ temp_storage = EmptyStorage
    /\ response = NoResponse
    /\ projected = {}
    /\ enhance_returned = FALSE
    /\ uploads = {}
    /\ db_faults = FALSE
    /\ batch = NoBatch
    /\ silent_noops = {}

InitResumeIdle ==
    /\ structured_data = NoValue
    /\ resume_pc = "idle"
    /\ parser_result = <<>>
    /\ scoring_result = <<>>

InitAgg ==
    /\ experiences \in ExperienceArgs
    /\ now \in Today
    /\ agg_pc = "ready"
    /\ work_experience = NoValue
    /\ InitSkillsIdle
    /\ InitBucketIdle
    /\ InitApiIdle
    /\ InitResumeIdle

SpecAgg == InitAgg /\ [][NextAgg]_vars

InitSkills ==
    /\ primary_skills \in SkillArgs
    /\ secondary_skills \in SkillArgs
    /\ skills_pc = "ready"
    /\ unique = NoValue
    /\ mapping = NoValue
    /\ InitAggIdle
    /\ InitBucketIdle
    /\ InitApiIdle
    /\ InitResumeIdle

SpecSkills == InitSkills /\ [][NextSkills]_vars

InitBucket ==
    /\ years \in YearsArgs
    /\ bucket_pc = "ready"
    /\ bucket_label = NoValue
    /\ InitAggIdle
    /\ InitSkillsIdle
    /\ InitApiIdle
    /\ InitResumeIdle

SpecBucket == InitBucket /\ [][NextBucket]_vars

\* the service started: an empty database, temp_storage = {} (line 34)
InitApi ==
    /\ api_pc = "up"
    /\ graph = EmptyGraph
    /\ temp_storage = EmptyStorage
    /\ response = NoResponse
    /\ projected = {}
    /\ enhance_returned = FALSE
    /\ uploads = Uploads
    /\ db_faults = FALSE
    /\ batch = NoBatch
    /\ silent_noops = {}
    /\ InitAggIdle
    /\ InitSkillsIdle
    /\ InitBucketIdle
    /\ InitResumeIdle

SpecApi == InitApi /\ [][NextApi]_vars

\* the service started, with a database whose writes may fail and clients
\* whose requests overlap
InitApiAsync ==
    /\ api_pc = "up"
    /\ graph = EmptyGraph
    /\ temp_storage = EmptyStorage
    /\ response = NoResponse
    /\ projected = {}
    /\ enhance_returned = FALSE
    /\ uploads = FewUploads
    /\ db_faults = TRUE
    /\ batch = NoBatch
    /\ silent_noops = {}
    /\ InitAggIdle
    /\ InitSkillsIdle
    /\ InitBucketIdle
    /\ InitResumeIdle

SpecApiAsync == InitApiAsync /\ [][NextApiAsync]_vars

\* a resume was read and GPT's extraction is at hand
InitResume ==
    /\ structured_data \in ExtractedResumes
    /\ resume_pc = "ready"
    /\ parser_result = <<>>
    /\ scoring_result = <<>>
    /\ InitAggIdle
    /\ InitSkillsIdle
    /\ InitBucketIdle
    /\ InitApiIdle

SpecResume == InitResume /\ [][NextResume]_vars

Init == InitAgg \/ InitSkills \/ InitBucket \/ InitApi \/ InitApiAsync \/ InitResume

Next == NextAgg \/ NextSkills \/ NextBucket \/ NextApi \/ NextApiAsync \/ NextResume

Spec == Init /\ [][Next]_vars

(***************************************************************************)
(* What the claims speak of                                                *)
(***************************************************************************)
S_2018_01_01 == <<"2", "0", "1", "8", "-", "0", "1", "-", "0", "1">>

S_2019_01_01 == <<"2", "0", "1", "9", "-", "0", "1", "-", "0", "1">>

S_2020_01_01 == <<"2", "0", "2", "0", "-", "0", "1", "-", "0", "1">>

S_2020_06_01 == <<"2", "0", "2", "0", "-", "0", "6", "-", "0", "1">>

S_2021_01_01 == <<"2", "0", "2", "1", "-", "0", "1", "-", "0", "1">>

S_2021_06_01 == <<"2", "0", "2", "1", "-", "0", "6", "-", "0", "1">>

S_2022_01_01 == <<"2", "0", "2", "2", "-", "0", "1", "-", "0", "1">>

\* the calendar day each well-formed string of the inputs names
CalendarOf(s) ==
    CASE s = S_2020_01_15 -> [year |-> 2020, month |-> 1, day |-> 15]
      [] s = S_2020_03_01 -> [year |-> 2020, month |-> 3, day |-> 1]
      [] s = S_2020_03_20 -> [year |-> 2020, month |-> 3, day |-> 20]
      [] s = S_2021_02_10 -> [year |-> 2021, month |-> 2, day |-> 10]

\* strings that are no date, beyond those drawn as inputs
AllBadStrings == BadStrings \cup {S_present, S_2021_02_30}

\* the day a date value stands for under the best-effort policy
Meaning(s) == IF s \in GoodStrings \cup {S_2020_03_20} THEN CalendarOf(s) ELSE now

\* order of calendar days (no time of day)
CalLT(a, b) ==
    \/ a.year < b.year
    \/ a.year = b.year /\ a.month < b.month
    \/ a.year = b.year /\ a.month = b.month /\ a.day < b.day

Items == experiences.items

NoMissingDate(items) ==
    \A i \in 1..Len(items) : items[i].date_start # None /\ items[i].date_end # None

\* every interval has end >= start
AllWellFormed(items) ==
    \A i \in 1..Len(items) :
        ~CalLT(Meaning(items[i].date_end), Meaning(items[i].date_start))

Permuted(items, p) == [i \in 1..Len(items) |-> items[p[i]]]

ResultOf(items) == calculate_total_work_experience(PyList(items), now)

\* C1 as stated: for every input list and every permutation of it the
\* returned {years, months} is the same, ties of start dates included.
C1_OrderIndependent ==
    agg_pc = "returned" =>
        \A p \in Permutations(1..Len(Items)) :
            ResultOf(Permuted(Items, p)).value = work_experience

\* C1 amended: for every input list whose intervals all have end >= start,
\* every permutation of the list returns the same {years, months}, ties of
\* start dates included.
C1_OrderIndependentWellFormed ==
    (agg_pc = "returned" /\ AllWellFormed(Items)) =>
        \A p \in Permutations(1..Len(Items)) :
            ResultOf(Permuted(Items, p)).value = work_experience

C1_Witness ==
    /\ agg_pc = "returned"
    /\ Len(Items) = 3
    /\ AllWellFormed(Items)
    /\ Items[1].date_start = Items[2].date_start
    /\ Items[1].date_end # Items[2].date_end
    /\ CalLT(Meaning(Items[3].date_start), Meaning(Items[1].date_start))
    /\ work_experience.years > 0

\* C2 as stated: the years returned are >= 0 for every input list, also one
\* with an interval whose end precedes its start.
C2_YearsNonNegative ==
    agg_pc = "returned" => work_experience.years >= 0

\* C2 amended: the years returned are >= 0 (and months in 0..11) for every
\* input list whose intervals all have end >= start.
C2_YearsNonNegativeWellFormed ==
    (agg_pc = "returned" /\ AllWellFormed(Items)) =>
        work_experience.years >= 0 /\ work_experience.months \in 0..11

C2_Witness ==
    /\ agg_pc = "returned"
    /\ Len(Items) >= 2
    /\ AllWellFormed(Items)
    /\ \E i \in 1..Len(Items) : Items[i].date_start \in BadStrings
    /\ work_experience.years = 1


\* the parsed intervals of a list without missing dates
Intervals == ParseExperiences(Items, now, 0, <<>>).value

MinStart(iv) ==
    CHOOSE x \in {iv[i].start : i \in 1..Len(iv)} :
        \A j \in 1..Len(iv) : DateLE(x, iv[j].start)

MaxOf(S) == CHOOSE x \in S : \A y \in S : DateLE(y, x)

\* interval j starts inside or at the end of an interval that starts earlier
Covered(iv, j) ==
    \E i \in 1..Len(iv) :
        DateLT(iv[i].start, iv[j].start) /\ DateLE(iv[j].start, iv[i].end)

\* all intervals fall into one run
OneRun(iv) ==
    \A j \in 1..Len(iv) : iv[j].start # MinStart(iv) => Covered(iv, j)

\* the starts of the runs: the starts no earlier interval reaches
RunStarts(iv) == { iv[j].start : j \in {k \in 1..Len(iv) : ~Covered(iv, k)} }

\* the intervals of the run that starts at s, starts being the run starts
RunMembers(iv, starts, s) ==
    { j \in 1..Len(iv) :
        /\ DateLE(s, iv[j].start)
        /\ ~\E s2 \in starts : DateLT(s, s2) /\ DateLE(s2, iv[j].start) }

RunEnd(iv, starts, s) == MaxOf({ iv[j].end : j \in RunMembers(iv, starts, s) })

WholeMonths(a, b) == (b.year - a.year) * 12 + (b.month - a.month)

RECURSIVE SumOverRuns(_, _, _)
SumOverRuns(iv, starts, todo) ==
    IF todo = {} THEN 0
    ELSE LET s == CHOOSE x \in todo : TRUE
         IN WholeMonths(s, RunEnd(iv, starts, s))
            + SumOverRuns(iv, starts, todo \ {s})

AsDuration(total) == [years |-> total \div 12, months |-> total % 12]

\* the day the examples of the claims are evaluated on
ExampleDay == CHOOSE d \in Today : TRUE

C3_Example ==
    calculate_total_work_experience(
        PyList(<<[date_start |-> S_2020_01_01, date_end |-> S_2021_06_01],
                 [date_start |-> S_2020_06_01, date_end |-> S_2022_01_01]>>),
        ExampleDay)

\* C3: intervals (each with end >= start) that all fall into one run give
\* the whole-month difference between the earliest start and the latest
\* end; [2020-01-01..2021-06-01, 2020-06-01..2022-01-01] gives {2, 0}.
C3_OverlapCountedOnce ==
    /\ (agg_pc = "returned" /\ Len(Items) >= 1 /\ AllWellFormed(Items)) =>
          \A iv \in {Intervals} :
              OneRun(iv) =>
                  work_experience =
                      AsDuration(WholeMonths(MinStart(iv),
                          MaxOf({iv[i].end : i \in 1..Len(iv)})))
    /\ C3_Example = [exc |-> "none", value |-> [years |-> 2, months |-> 0]]

C3_Witness ==
    /\ agg_pc = "returned"
    /\ Len(Items) = 3
    /\ AllWellFormed(Items)
    /\ \E iv \in {Intervals} :
          /\ OneRun(iv)
          /\ \E i, j, k \in 1..3 :
                /\ DateLT(iv[i].start, iv[j].start)
                /\ DateLT(iv[j].start, iv[k].start)
                /\ DateLT(iv[j].end, iv[k].start)
                /\ DateLE(iv[k].start, iv[i].end)
    /\ work_experience = [years |-> 1, months |-> 1]

C4_Example ==
    calculate_total_work_experience(
        PyList(<<[date_start |-> S_2018_01_01, date_end |-> S_2019_01_01],
                 [date_start |-> S_2020_01_01, date_end |-> S_2021_01_01]>>),
        ExampleDay)

C5_Example ==
    calculate_total_work_experience(
        PyList(<<[date_start |-> S_2020_01_01, date_end |-> S_2021_01_01]>>),
        ExampleDay)

\* C5: a single interval gives (end.year - start.year) * 12 + (end.month -
\* start.month) months, split by // 12 and % 12, whatever the days of the
\* month of the two dates; 2020-01-01..2021-01-01 gives {1, 0}.
C5_SingleInterval ==
    /\ (agg_pc = "returned" /\ Len(Items) = 1
            /\ Items[1].date_start \in GoodStrings
            /\ Items[1].date_end \in GoodStrings) =>
          LET s == CalendarOf(Items[1].date_start)
              e == CalendarOf(Items[1].date_end)
              total == (e.year - s.year) * 12 + (e.month - s.month)
          IN /\ work_experience = [years |-> total \div 12, months |-> total % 12]
             /\ \A s2, e2 \in GoodStrings \cup {S_2020_03_20} :
                   (/\ CalendarOf(s2).year = s.year
                    /\ CalendarOf(s2).month = s.month
                    /\ CalendarOf(e2).year = e.year
                    /\ CalendarOf(e2).month = e.month) =>
                      ResultOf(<<[date_start |-> s2, date_end |-> e2]>>).value
                          = work_experience
    /\ C5_Example = [exc |-> "none", value |-> [years |-> 1, months |-> 0]]

C5_Witness ==
    /\ agg_pc = "returned"
    /\ Len(Items) = 1
    /\ Items[1].date_start = S_2020_01_15
    /\ Items[1].date_end = S_2020_03_01
    /\ work_experience = [years |-> 0, months |-> 2]

\* C6: an empty or None experiences list returns {years: 0, months: 0} and
\* raises nothing.
C6_EmptyReturnsZero ==
    (agg_pc # "ready" /\ (experiences.none \/ experiences.items = <<>>)) =>
        agg_pc = "returned" /\ work_experience = [years |-> 0, months |-> 0]

C6_Witness ==
    /\ agg_pc = "returned"
    /\ ~experiences.none
    /\ experiences.items = <<>>

\* C7: parse_date maps every malformed or empty date string to the
\* evaluation date and raises nothing, so the call returns a result for every
\* list whose date_start / date_end are strings.
C7_MalformedDatesAreNow ==
    (agg_pc # "ready" /\ ~experiences.none /\ NoMissingDate(Items)) =>
        /\ agg_pc = "returned"
        /\ work_experience.months \in 0..11
        /\ \A s \in AllBadStrings : \A k \in {0, 2 * Len(Items)} :
              LET r == parse_date(s, now, k)
              IN /\ r.exc = "none"
                 /\ r.value.year = now.year
                 /\ r.value.month = now.month
                 /\ r.value.day = now.day

C7_Witness ==
    /\ agg_pc = "returned"
    /\ Len(Items) = 2
    /\ Items[1].date_end \in BadStrings
    /\ Items[2].date_start \in BadStrings
    /\ Items[1].date_start \in GoodStrings

\* C8 as stated: the call returns a Duration and never raises, also for an
\* entry whose date_start or date_end is None.
C8_MissingDatesNeverRaise ==
    (agg_pc # "ready" /\ ~NoMissingDate(Items)) => agg_pc = "returned"


(***************************************************************************)
(* Skill mapping claims                                                    *)
(***************************************************************************)
Range(f) == { f[i] : i \in 1..Len(f) }

NoDuplicates(f) == \A i, j \in 1..Len(f) : i # j => f[i] # f[j]

FirstIndex(f, x) == CHOOSE i \in 1..Len(f) : f[i] = x /\ \A j \in 1..(i - 1) : f[j] # x

\* the members of g come in the order of their first occurrence in f
FirstSeenOrder(g, f) ==
    \A i, j \in 1..Len(g) : i < j => FirstIndex(f, g[i]) < FirstIndex(f, g[j])

PrimaryIn == primary_skills.items

SecondaryIn == secondary_skills.items

\* C9: subskills = the distinct secondary skills in first-seen order without
\* the primary skills and without "Problem Solving", "Communication" and
\* "Critical Thinking" (exact, case-sensitive match); skills and subskills
\* are disjoint and each is duplicate-free.
C9_UniqueSkills ==
    /\ (skills_pc = "unique_returned" /\ ~primary_skills.none /\ ~secondary_skills.none) =>
          /\ Range(unique.subskills) =
                (Range(SecondaryIn) \ Range(PrimaryIn))
                    \ {"Problem Solving", "Communication", "Critical Thinking"}
          /\ FirstSeenOrder(unique.subskills, SecondaryIn)
          /\ Range(unique.skills) = Range(PrimaryIn)
          /\ FirstSeenOrder(unique.skills, PrimaryIn)
          /\ NoDuplicates(unique.skills)
          /\ NoDuplicates(unique.subskills)
          /\ Range(unique.skills) \cap Range(unique.subskills) = {}
    /\ map_unique_skills(PyList(<<"Python">>), PyList(<<"Python", "SQL">>))
          = [exc |-> "None", skills |-> <<"Python">>, subskills |-> <<"SQL">>]
    /\ map_unique_skills(PyList(<<"SQL">>),
                         PyList(<<"Problem Solving", "critical thinking",
                                  "Critical Thinking", "Communication">>))
          = [exc |-> "None", skills |-> <<"SQL">>, subskills |-> <<"critical thinking">>]

C9_Witness ==
    /\ skills_pc = "unique_returned"
    /\ primary_skills = PyList(<<"SQL", "Python", "SQL">>)
    /\ secondary_skills = PyList(<<"communication", "Communication", "Python">>)
    /\ unique = [skills |-> <<"SQL", "Python">>, subskills |-> <<"communication">>]

\* C10: one mapping per distinct primary skill, in first-seen order, and
\* every mapping carries the same subskills list, the whole filtered
\* secondary pool.
C10_Broadcast ==
    (skills_pc = "mapping_returned" /\ ~primary_skills.none /\ ~secondary_skills.none) =>
        /\ Len(mapping) = Cardinality(Range(PrimaryIn))
        /\ { mapping[i].skill : i \in 1..Len(mapping) } = Range(PrimaryIn)
        /\ FirstSeenOrder([i \in 1..Len(mapping) |-> mapping[i].skill], PrimaryIn)
        /\ \A i \in 1..Len(mapping) :
              LET names == [j \in 1..Len(mapping[i].subskills) |->
                               mapping[i].subskills[j].subskill]
              IN /\ mapping[i].subskills = mapping[1].subskills
                 /\ NoDuplicates(names)
                 /\ FirstSeenOrder(names, SecondaryIn)
                 /\ Range(names) =
                       (Range(SecondaryIn) \ Range(PrimaryIn))
                           \ {"Problem Solving", "Communication", "Critical Thinking"}

C10_Witness ==
    /\ skills_pc = "mapping_returned"
    /\ primary_skills = PyList(<<"Python", "Communication", "Python">>)
    /\ secondary_skills = PyList(<<"SQL", "communication", "SQL">>)
    /\ Len(mapping) = 2
    /\ mapping[1].skill = "Python"
    /\ mapping[2].skill = "Communication"
    /\ mapping[2].subskills = <<[subskill |-> "SQL"], [subskill |-> "communication"]>>

\* C11: map_unique_skills and map_skills_to_conditional never raise on a
\* None primary or secondary list and return what they return for the empty
\* list: a None primary list gives no skills and an empty mapping list, a
\* None secondary list gives no subskills and mappings whose subskills are
\* empty.
C11_NoneIsEmpty ==
    /\ skills_pc # "raised"
    /\ (skills_pc = "unique_returned" /\ primary_skills.none) =>
          unique.skills = <<>>
    /\ (skills_pc = "unique_returned" /\ secondary_skills.none) =>
          unique.subskills = <<>>
    /\ (skills_pc = "mapping_returned" /\ primary_skills.none) =>
          mapping = <<>>
    /\ (skills_pc = "mapping_returned" /\ secondary_skills.none) =>
          /\ Len(mapping) = Cardinality(Range(PrimaryIn))
          /\ \A i \in 1..Len(mapping) : mapping[i].subskills = <<>>
    /\ (skills_pc = "mapping_returned"
          /\ (primary_skills.none \/ secondary_skills.none)) =>
          mapping = map_skills_to_conditional(PyList(PrimaryIn),
                                              PyList(SecondaryIn)).value

C11_Witness ==
    /\ skills_pc = "mapping_returned"
    /\ primary_skills = PyList(<<"Python", "SQL">>)
    /\ secondary_skills = NoneList
    /\ mapping = <<[skill |-> "Python", subskills |-> <<>>],
                   [skill |-> "SQL", subskills |-> <<>>]>>

(***************************************************************************)
(* Experience bucket claims                                                *)
(***************************************************************************)
\* order-preserving rank of a number among the whole and the half-way
\* values: 2n for n, 2n + 1 for a value strictly between n and n + 1
Rank(y) == 2 * y.floor + (IF y.whole THEN 0 ELSE 1)

\* lo <= y < hi
InHalfOpen(y, lo, hi) == 2 * lo <= Rank(y) /\ Rank(y) < 2 * hi

BucketLabels == {"0-1", "1-2", "2-4", "4-8", "8-16", "16+"}

C13_Examples ==
    /\ map_experience_to_bucket(PyNumber(0, FALSE)).value = "0-1"
    /\ map_experience_to_bucket(PyNumber(1, TRUE)).value = "1-2"
    /\ map_experience_to_bucket(PyNumber(16, TRUE)).value = "16+"
    /\ map_experience_to_bucket(PyNumber(15, FALSE)).value = "8-16"

\* C13: map_experience_to_bucket never raises on a non-negative number and
\* returns exactly one of the six labels by half-open ranges: [0,1) "0-1",
\* [1,2) "1-2", [2,4) "2-4", [4,8) "4-8", [8,16) "8-16", [16,inf) "16+";
\* the boundary values 1, 2, 4, 8 and 16 fall in the upper bucket.
C13_BucketTable ==
    /\ (bucket_pc \in {"returned", "raised"} /\ ~years.none /\ Rank(years) >= 0) =>
          /\ bucket_pc = "returned"
          /\ bucket_label \in BucketLabels
          /\ bucket_label = "0-1"  <=> InHalfOpen(years, 0, 1)
          /\ bucket_label = "1-2"  <=> InHalfOpen(years, 1, 2)
          /\ bucket_label = "2-4"  <=> InHalfOpen(years, 2, 4)
          /\ bucket_label = "4-8"  <=> InHalfOpen(years, 4, 8)
          /\ bucket_label = "8-16" <=> InHalfOpen(years, 8, 16)
          /\ bucket_label = "16+"  <=> Rank(years) >= 2 * 16
    /\ C13_Examples

C13_Witness ==
    /\ bucket_pc = "returned"
    /\ years = PyNumber(8, TRUE)
    /\ bucket_label = "8-16"

(***************************************************************************)
(* Graph projection claims                                                 *)
(***************************************************************************)
\* the candidate_list of the last enhance_job_description that returned
LastCandidateList == temp_storage.candidates[1].candidate_list

Called(calls, call) == \E k \in 1..Len(calls) : calls[k] = call

MappingOf(c) ==
    map_skills_to_conditional(PrimarySkillsOf(c), SecondarySkillsOf(c)).value

CandidateNode(name) == Node("Candidate", name)

\* what the calls made for candidate c say about its mapping entry m
ConditionalCalls(c, calls, m) ==
    IF m.subskills # <<>>
    THEN /\ \A j \in 1..Len(m.subskills) :
              Called(calls, Call("link_candidate_to_subskill",
                                 <<c.full_name, m.subskills[j].subskill>>))
         /\ ~Called(calls, Call("link_candidate_to_skill", <<c.full_name, m.skill>>))
    ELSE /\ Called(calls, Call("link_candidate_to_skill", <<c.full_name, m.skill>>))
         /\ \A k \in 1..Len(calls) : calls[k].op # "link_candidate_to_subskill"

\* what the database holds for candidate c and its mapping entry m
ConditionalLinks(c, m) ==
    IF m.subskills # <<>>
    THEN \A j \in 1..Len(m.subskills) :
             Linked(graph, "BELONGS_TO_SUBSKILL", CandidateNode(c.full_name),
                    Node("SubSkill", m.subskills[j].subskill))
    ELSE Linked(graph, "BELONGS_TO_SKILL", CandidateNode(c.full_name),
                Node("Skill", m.skill))

\* C12: for each mapping of a candidate of the projected list: if its
\* subskills list is non-empty the candidate is linked (BELONGS_TO_SUBSKILL)
\* to every subskill of the mapping and link_candidate_to_skill is not
\* called for that skill; if it is empty the candidate is linked
\* (BELONGS_TO_SKILL) to the skill and link_candidate_to_subskill is not
\* called for the candidate.
C12_ConditionalLinking ==
    HasKey(temp_storage, "candidates") =>
        \A i \in 1..Len(LastCandidateList) :
            \A c \in {LastCandidateList[i]} :
                c.is_dict =>
                    \A calls \in {CandidateCalls(c).calls}, mp \in {MappingOf(c)} :
                        \A e \in 1..Len(mp) :
                            /\ ConditionalCalls(c, calls, mp[e])
                            /\ ConditionalLinks(c, mp[e])

C12_Witness ==
    /\ HasKey(temp_storage, "candidates")
    /\ LastCandidateList = <<Ann_Generalist, Bob_Senior>>
    /\ Linked(graph, "BELONGS_TO_SKILL", CandidateNode("Ann"), Node("Skill", "Python"))
    /\ Linked(graph, "BELONGS_TO_SKILL", CandidateNode("Ann"), Node("Skill", "SQL"))
    /\ Linked(graph, "BELONGS_TO_SUBSKILL", CandidateNode("Bob"), Node("SubSkill", "SQL"))
    /\ ~Linked(graph, "BELONGS_TO_SKILL", CandidateNode("Bob"), Node("Skill", "Python"))
    /\ { n.key : n \in NodesOf(graph, "SubSkill") } = {"SQL"}

\* the names of the candidates a read returns
NamesOf(rows) == { row.candidate_name : row \in rows }

\* C14: after any sequence of projections,
\* find_candidates_for_same_experience_skill(bucket, skill) returns every
\* candidate that was projected under that bucket with that primary skill,
\* whether it was linked through the skill's subskills or directly to the
\* skill.
C14_SkillLevelRead ==
    \A f \in projected :
        f.skill # NoName =>
            f.candidate \in NamesOf(find_candidates_for_same_experience_skill(
                                        graph, f.bucket, f.skill))

\* the chain Industry(Finances) -> JobRole -> Experience(b) -> Skill(s) ->
\* SubSkill(ss) <- Candidate(c)
FullChain(b, sk, ss, c) ==
    /\ Finances \in BagToSet(graph.nodes)
    /\ RiskAdvisory \in BagToSet(graph.nodes)
    /\ {Node("Experience", b), Node("Skill", sk), Node("SubSkill", ss),
        Node("Candidate", c)} \subseteq BagToSet(graph.nodes)
    /\ {Edge("HAS_JOB_ROLE", Finances, RiskAdvisory),
        Edge("HAS_EXPERIENCE_RANGE", RiskAdvisory, Node("Experience", b)),
        Edge("HAS_SKILL", Node("Experience", b), Node("Skill", sk)),
        Edge("HAS_SUBSKILL", Node("Skill", sk), Node("SubSkill", ss)),
        Edge("BELONGS_TO_SUBSKILL", Node("Candidate", c), Node("SubSkill", ss))}
            \subseteq BagToSet(graph.edges)

\* C15: once a candidate has been projected with bucket b, primary skill s
\* and filtered subskill ss, the chain Industry(Finances) -> JobRole ->
\* Experience(b) -> Skill(s) -> SubSkill(ss) <- Candidate is in the graph
\* and find_matching_candidates(b, s, ss) returns the candidate, with its
\* score, also after any later projection.
C15_SubskillLevelRead ==
    \A f \in projected :
        f.subskill # NoName =>
            /\ FullChain(f.bucket, f.skill, f.subskill, f.candidate)
            /\ [candidate_name  |-> f.candidate,
                candidate_score |-> ScoreOf(graph, f.candidate)]
                  \in find_matching_candidates(graph, f.bucket, f.skill, f.subskill)

\* Ann was projected under "0-1" with Python and SQL, and again later with
\* another score and no subskill; the read still returns Ann
C15_Witness ==
    /\ Fact("Ann", "0-1", "Python", "SQL") \in projected
    /\ Fact("Ann", "0-1", "Python", NoName) \in projected
    /\ Fact("Bob", "4-8", "Python", "SQL") \in projected
    /\ LastCandidateList = <<Ann_Generalist>>
    /\ [candidate_name |-> "Ann", candidate_score |-> 4]
          \in find_matching_candidates(graph, "0-1", "Python", "SQL")

\* the last API call was an enhance_job_description that returned
EnhanceJustReturned == response.endpoint = "enhance" /\ response.status = 200

\* every node and every relationship is there once, every candidate has
\* one score
NoSecondCopy ==
    /\ \A n \in BagToSet(graph.nodes) : CopiesIn(n, graph.nodes) = 1
    /\ \A e \in BagToSet(graph.edges) : CopiesIn(e, graph.edges) = 1
    /\ \A p, q \in graph.score : p.name = q.name => p = q
    /\ { p.name : p \in graph.score } = { n.key : n \in NodesOf(graph, "Candidate") }

\* C16: applying the write sequence of enhance_job_description for the same
\* candidate list a second time leaves the nodes, the relationships and the
\* candidate scores as the first application left them, and no write makes
\* a second node or relationship for an existing key.
C16_Idempotent ==
    /\ NoSecondCopy
    /\ EnhanceJustReturned =>
          ApplyAll(graph, ProjectionCalls(LastCandidateList).calls) = graph

\* a list that writes Ann twice with different scores, on a database that
\* already held Bob
C16_Witness ==
    /\ EnhanceJustReturned
    /\ LastCandidateList = <<Ann_Junior, Ann_Generalist>>
    /\ ScoreOf(graph, "Ann") = 4
    /\ Fact("Bob", "4-8", "Python", "SQL") \in projected

ConflictLabels == {"Problem Solving", "Communication", "Critical Thinking"}

\* a candidate of the list names a conflict label among its secondary skills
SuppliesConflict(candidate_list) ==
    \E i \in 1..Len(candidate_list) :
        /\ candidate_list[i].is_dict
        /\ Range(SecondarySkillsOf(candidate_list[i]).items) \cap ConflictLabels # {}

\* C17: after any sequence of projections no SubSkill node is named
\* "Problem Solving", "Communication" or "Critical Thinking" and no
\* candidate has a BELONGS_TO_SUBSKILL relationship to such a label,
\* whatever skill lists the candidates supply.
C17_NoConflictSubskill ==
    /\ \A n \in NodesOf(graph, "SubSkill") : n.key \notin ConflictLabels
    /\ \A e \in BagToSet(graph.edges) :
          e.type \in {"BELONGS_TO_SUBSKILL", "HAS_SUBSKILL"} =>
              e.to.key \notin ConflictLabels
    /\ \A f \in projected : f.subskill \notin ConflictLabels

C17_Witness ==
    /\ EnhanceJustReturned
    /\ LastCandidateList = <<Ann_Junior, Ann_Generalist>>
    /\ SuppliesConflict(LastCandidateList)
    /\ { n.key : n \in NodesOf(graph, "SubSkill") } = {"SQL"}
    /\ Linked(graph, "BELONGS_TO_SUBSKILL", CandidateNode("Ann"), Node("SubSkill", "SQL"))

\* the candidates written under bucket b by some projection
ProjectedUnder(b) == { f.candidate : f \in { x \in projected : x.bucket = b } }

\* C18: after any sequence of projections, find_matching_candidates(b, s,
\* ss) and find_candidates_for_same_experience_skill(b, s) return only
\* candidates that were themselves projected with experience bucket b, also
\* when another candidate in bucket b has the same skill or subskill name.
C18_BucketsPartition ==
    \A b \in BucketLabels :
        \A sk \in NodesOf(graph, "Skill") :
            /\ NamesOf(find_candidates_for_same_experience_skill(graph, b, sk.key))
                  \subseteq ProjectedUnder(b)
            /\ \A ss \in NodesOf(graph, "SubSkill") :
                  NamesOf(find_matching_candidates(graph, b, sk.key, ss.key))
                      \subseteq ProjectedUnder(b)

(***************************************************************************)
(* The runs of the merge walk                                              *)
(***************************************************************************)
\* every parsed interval has end >= start
EndsNotBeforeStarts(iv) == \A i \in 1..Len(iv) : DateLE(iv[i].start, iv[i].end)

\* interval x lies inside run r
Inside(x, r) == DateLE(r.start, x.start) /\ DateLE(x.end, r.end)

C19_Example ==
    RunsOf(<<[start |-> strptime(S_2020_01_15).value, end |-> strptime(S_2020_03_01).value],
             [start |-> strptime(S_2020_03_01).value, end |-> strptime(S_2021_02_10).value]>>)

\* C19: for input intervals with end >= start, every input interval lies
\* inside exactly one run of the walk, each run starts at the least start
\* and ends at the greatest end of the intervals inside it, consecutive runs
\* satisfy previous end < next start, and an interval that starts at the
\* end of the current run joins it.
C19_RunsMaximalDisjoint ==
    /\ (agg_pc = "returned" /\ Len(Items) >= 1) =>
          \A iv \in {Intervals} :
              EndsNotBeforeStarts(iv) =>
                  \A runs \in {RunsOf(SortByStart(iv))} :
                      /\ \A i \in 1..Len(iv) :
                            Cardinality({ k \in 1..Len(runs) : Inside(iv[i], runs[k]) }) = 1
                      /\ \A k \in 1..Len(runs) :
                            /\ \E i \in 1..Len(iv) :
                                  Inside(iv[i], runs[k]) /\ iv[i].end = runs[k].end
                            /\ \E i \in 1..Len(iv) :
                                  Inside(iv[i], runs[k]) /\ iv[i].start = runs[k].start
                      /\ \A k \in 1..(Len(runs) - 1) :
                            DateLT(runs[k].end, runs[k + 1].start)
    /\ Len(C19_Example) = 1

C19_Witness ==
    /\ agg_pc = "returned"
    /\ Len(Items) = 3
    /\ \E iv \in {Intervals} :
          /\ EndsNotBeforeStarts(iv)
          /\ Len(RunsOf(SortByStart(iv))) = 2
          /\ \E i, j \in 1..3 :
                /\ DateLT(iv[i].start, iv[j].start)
                /\ iv[j].start = iv[i].end
                /\ DateLT(iv[i].end, iv[j].end)

(***************************************************************************)
(* Scoring needs an enhanced job description                               *)
(***************************************************************************)
\* the last API call was a scoring call that reached process_bulk_resumes
ProcessBulkResumesCalled ==
    response.endpoint = "score" /\ response.error # "No resume files provided."

\* C20: a call of process_bulk_resumes made when no enhance_job_description
\* call has returned raises "Enhanced Job Description not found. Run
\* /api/job-description-enhance first." and scores no resume; a scoring call
\* succeeds only after an enhance call has returned.
C20_ScoringNeedsEnhance ==
    /\ (ProcessBulkResumesCalled /\ ~enhance_returned) =>
          /\ response.status = 500
          /\ response.error =
                "Enhanced Job Description not found. Run /api/job-description-enhance first."
          /\ response.scored = 0
    /\ (response.endpoint = "score" /\ response.status = 200) => enhance_returned
    /\ ~enhance_returned => temp_storage = EmptyStorage

C20_Witness ==
    /\ ProcessBulkResumesCalled
    /\ ~enhance_returned
    /\ response.error = ErrJdNotFound
    /\ temp_storage = EmptyStorage

(***************************************************************************)
(* The status of a scoring call without files                              *)
(***************************************************************************)
\* the last API call was a scoring call whose handler found files empty
EmptyFilesRefused ==
    response.endpoint = "score" /\ response.error = "No resume files provided."

\* C21: the score_resumes handler run with an empty files list answers
\* status 400 with detail "No resume files provided."; 500 is the status of
\* failures of the scoring itself only.
C21_EmptyFilesIs400 ==
    EmptyFilesRefused => response.status = 400

(***************************************************************************)
(* Absorption                                                              *)
(***************************************************************************)
\* the list without its i-th entry
RemoveAt(items, i) == [k \in 1..(Len(items) - 1) |-> IF k < i THEN items[k] ELSE items[k + 1]]

\* entry x names days within those of entry y: start >= that start and
\* end <= that end (a duplicate of y is within y)
ContainedIn(x, y) ==
    /\ ~CalLT(Meaning(x.date_start), Meaning(y.date_start))
    /\ ~CalLT(Meaning(y.date_end), Meaning(x.date_end))

\* entry i of the list is contained in another entry of the list
Absorbed(items, i) == \E j \in 1..Len(items) : j # i /\ ContainedIn(items[i], items[j])

\* C25: for a list of intervals each with end >= start, the list with an
\* interval added that is contained in an interval of the list, or that
\* duplicates one, returns what the list without it returns, wherever in
\* the list the interval is added.
C25_Absorption ==
    (agg_pc = "returned" /\ NoMissingDate(Items) /\ AllWellFormed(Items)) =>
        \A i \in 1..Len(Items) :
            Absorbed(Items, i) => ResultOf(RemoveAt(Items, i)).value = work_experience

C25_Witness ==
    /\ agg_pc = "returned"
    /\ Len(Items) = 3
    /\ AllWellFormed(Items)
    /\ Items[1] = Items[3]
    /\ CalLT(Meaning(Items[1].date_start), Meaning(Items[2].date_start))
    /\ CalLT(Meaning(Items[2].date_end), Meaning(Items[1].date_end))
    /\ work_experience = [years |-> 1, months |-> 1]
    /\ ResultOf(RemoveAt(Items, 2)).value = work_experience
    /\ ResultOf(RemoveAt(Items, 3)).value = work_experience

(***************************************************************************)
(* parse_resume and the two aggregators                                    *)
(***************************************************************************)
Returned(result) == result # <<>> /\ result[1].exc = "none"

\* the extracted experiences are a list with at least one entry
ExperiencesExtracted ==
    ~structured_data.experiences.none /\ Len(structured_data.experiences.items) > 0

\* the dates of the extracted experiences, as a Python list
ExtractedDates ==
    PyList([i \in 1..Len(structured_data.experiences.items) |->
               [date_start |-> structured_data.experiences.items[i].date_start,
                date_end   |-> structured_data.experiences.items[i].date_end]])

\* value is the extraction with work_experience set to the computed total
\* when experiences were extracted, and the extraction itself when not
FrameOf(value, computed) ==
    /\ value.work_experience =
          (IF ExperiencesExtracted
           THEN [none |-> FALSE, years |-> computed.value.years,
                 months |-> computed.value.months]
           ELSE structured_data.work_experience)
    /\ value.candidate_name = structured_data.candidate_name
    /\ value.educations_duration = structured_data.educations_duration
    /\ value.experiences = structured_data.experiences

\* C23: parse_resume of ResumeParser and of ResumeScoringService returns
\* the extracted data with work_experience replaced by what
\* calculate_total_work_experience computes from the experiences'
\* date_start / date_end exactly when the extracted experiences are
\* non-empty; with empty or absent experiences it returns the extracted
\* work_experience, and every other field is as extracted in both cases.
C23_ParseResumeFrame ==
    /\ Returned(parser_result) =>
          FrameOf(parser_result[1].value,
                  calculate_total_work_experience(ExtractedDates, now))
    /\ Returned(scoring_result) =>
          FrameOf(scoring_result[1].value,
                  scoring_calculate_total_work_experience(ExtractedDates, now))
    /\ \A result \in {parser_result, scoring_result} :
          (result # <<>> /\ ~ExperiencesExtracted) =>
              result[1].exc \in {"none", "GPT extraction failed"}

C23_Witness ==
    /\ Returned(parser_result)
    /\ Returned(scoring_result)
    /\ Len(structured_data.experiences.items) = 2
    /\ structured_data.work_experience = [none |-> FALSE, years |-> 7, months |-> 3]
    /\ parser_result[1].value.work_experience = [none |-> FALSE, years |-> 1, months |-> 1]
    /\ scoring_result[1].value.work_experience = [none |-> FALSE, years |-> 1, months |-> 1]
    /\ parser_result[1].value.educations_duration = [none |-> FALSE, years |-> 4, months |-> 0]

\* C24: for every input list and the same evaluation date,
\* ResumeScoringService.calculate_total_work_experience returns the
\* {years, months} that ResumeParser.calculate_total_work_experience
\* returns, or both raise.
C24_SameAggregator ==
    agg_pc \in {"returned", "raised"} =>
        \A r \in {scoring_calculate_total_work_experience(experiences, now)} :
            IF agg_pc = "raised" THEN r.exc # "none"
            ELSE r.exc = "none" /\ r.value = work_experience

C24_Witness ==
    /\ agg_pc = "returned"
    /\ Len(Items) = 3
    /\ \E i \in 1..3 : Items[i].date_end \in BadStrings
    /\ \E i \in 1..3 : Items[i].date_start = S_2020_01_15
    /\ work_experience = [years |-> 1, months |-> 1]
    /\ scoring_calculate_total_work_experience(experiences, now).value = work_experience

(***************************************************************************)
(* Entries of candidate_list that are no dict                              *)
(***************************************************************************)
\* candidate_list without its entries that are no dict
ValidEntries(l) == SelectSeq(l, LAMBDA c : c.is_dict)

\* the lists whose run ends differently with their invalid entries than
\* without them
AbortingLists ==
    { l \in CandidateLists :
        ProjectionCalls(l).exc # ProjectionCalls(ValidEntries(l)).exc }

\* the calls made for the valid entries of l, entry by entry, behind the
\* two calls of lines 103-104
ValidCalls(l) ==
    LET F[k \in 0..Len(l)] ==
            IF k = 0
            THEN <<Call("add_industry", <<"Finances">>),
                   Call("add_job_role", <<"Finances", "Risk Advisory & Internal Auditor">>)>>
            ELSE IF l[k].is_dict THEN F[k - 1] \o CandidateCalls(l[k]).calls
            ELSE F[k - 1]
    IN F[Len(l)]

\* C22: an entry of candidate_list that is None or no dict is skipped: for
\* every list the service is sent, the run ends as it ends without the
\* entry (uploads never changes), and a run that returns has
\* written to the graph exactly the calls of the valid entries of the list,
\* those before and those behind the invalid entry, each of whose candidate
\* nodes is in the graph; nothing is written for the invalid entry.
C22_InvalidEntriesSkipped ==
    /\ \A u \in uploads : u.candidate_list \notin AbortingLists
    /\ [][ (response'.endpoint = "enhance" /\ response'.status = 200) =>
              \E l \in {temp_storage'.candidates[1].candidate_list} :
                  /\ graph' = ApplyAll(graph, ValidCalls(l))
                  /\ \A i \in 1..Len(l) :
                        l[i].is_dict => Match(graph', CandidateNode(l[i].full_name))
                  /\ \A n \in NodesOf(graph', "Candidate") :
                        n.key # NotADict.full_name ]_vars

\* a run that returned for a list with an invalid entry between two valid
\* ones, both of them projected
C22_Witness ==
    /\ EnhanceJustReturned
    /\ LastCandidateList = <<Ann_Junior, NotADict, Bob_Senior>>
    /\ Fact("Ann", "0-1", "Python", "SQL") \in projected
    /\ Fact("Bob", "4-8", "Python", "SQL") \in projected
    /\ NodesOf(graph, "Candidate") = {CandidateNode("Ann"), CandidateNode("Bob")}

(***************************************************************************)
(* Write ordering                                                          *)
(***************************************************************************)
\* C26: every write of enhance_job_description whose statement uses MATCH
\* is issued behind the writes that create the nodes it matches: none of
\* the writes of any run, on the empty graph or on the graph earlier runs
\* left, matched nothing, and the writes of a run that returned match
\* their nodes on the empty graph too, so that the nodes are created by
\* the run's own earlier writes.
C26_NoSilentNoOp ==
    /\ silent_noops = {}
    /\ EnhanceJustReturned =>
          RunCalls(EmptyGraph, ProjectionCalls(LastCandidateList).calls, {}).noops = {}

\* a run for Ann alone on the graph a run for Bob left, with a link to a
\* skill and a link to a subskill written
C26_Witness ==
    /\ EnhanceJustReturned
    /\ LastCandidateList = <<Ann_Generalist>>
    /\ Linked(graph, "BELONGS_TO_SKILL", CandidateNode("Ann"), Node("Skill", "Python"))
    /\ Linked(graph, "BELONGS_TO_SUBSKILL", CandidateNode("Bob"), Node("SubSkill", "SQL"))
    /\ silent_noops = {}

(***************************************************************************)
(* temp_storage under overlapping requests and failing writes              *)
(***************************************************************************)
\* the three values one enhance_job_description call for u stores
StoredBy(u) ==
    [enhanced_job_description |-> Stored(EnhancedJd(u.filename)),
     candidates               |-> Stored([candidate_list |-> u.candidate_list]),
     vectorized_jd            |-> Stored(Vectorized(EnhancedJd(u.filename)))]

\* the last request to the enhance endpoint raised at a graph write
EnhanceRaisedAtWrite ==
    /\ response.endpoint = "enhance"
    /\ response.status = 500
    /\ response.error = "Neo4j write failed"

\* C27: temp_storage holds none of its three keys, or all three with the
\* values one and the same enhance_job_description call stored; it changes
\* only in a step in which an enhance_job_description call returns, so a
\* call that raises at any step, before its first write or at any of its
\* graph writes, leaves it as it was.
C27_AllOrNothing ==
    /\ [](\/ temp_storage = EmptyStorage
          \/ \E u \in uploads : temp_storage = StoredBy(u))
    /\ [][ /\ temp_storage' # temp_storage =>
                (response'.endpoint = "enhance" /\ response'.status = 200)
           /\ (response'.endpoint = "enhance" /\ response'.status = 500) =>
                temp_storage' = temp_storage ]_vars

\* a call for jd_v2.pdf raised at a graph write behind its first writes,
\* and temp_storage still holds what the call for jd.pdf stored
C27_Witness ==
    /\ EnhanceRaisedAtWrite
    /\ Match(graph, CandidateNode("Bob"))
    /\ ~Linked(graph, "BELONGS_TO_SKILL", CandidateNode("Bob"), Node("Skill", "SQL"))
    /\ temp_storage = StoredBy(Upload("jd.pdf", <<Ann_Junior>>))

\* C28: every resume of a process_bulk_resumes call is compared against
\* the pair (enhanced_jd, generated_candidates) the call read at its start,
\* and the pair is the one a single enhance_job_description call stored,
\* whatever temp_storage holds by the time of the comparison.
C28_OnePairPerBatch ==
    batch.pc # "none" =>
        /\ \E u \in uploads :
              /\ batch.enhanced_jd = StoredBy(u).enhanced_job_description
              /\ batch.generated_candidates = StoredBy(u).candidates
        /\ \A k \in 1..Len(batch.compared) :
              /\ batch.compared[k].enhanced_jd = batch.enhanced_jd
              /\ batch.compared[k].candidates = batch.generated_candidates

\* a batch of two resumes that returned, its second resume compared when
\* another call had overwritten temp_storage
C28_Witness ==
    /\ batch.pc = "returned"
    /\ Len(batch.compared) = 2
    /\ ~batch.compared[1].overwritten
    /\ batch.compared[2].overwritten
    /\ batch.enhanced_jd = Stored(EnhancedJd("jd.pdf"))
    /\ temp_storage = StoredBy(Upload("jd_v2.pdf", <<Bob_Analyst>>))

=============================================================================
